---------------------------- MODULE Spec2Model ----------------------------
(***************************************************************************)
(* net_profiler: the profile application engine of src/src/lib.rs.         *)
(*                                                                         *)
(* load_profile(profile, adapter) turns a NetworkProfile into a sequence   *)
(* of external commands (netsh / powershell on Windows, ip / nmcli on      *)
(* Linux).  The model runs load_profile one external command at a time:    *)
(* a command is issued (appended to cmds, outcome "pending"), the external *)
(* process returns with one of three outcomes, and the code's match on     *)
(* that outcome decides what happens next.                                 *)
(*                                                                         *)
(* Six specifications share the state:                                     *)
(*   Spec       one call of load_profile                                   *)
(*   SpecFair   Spec, with every possible step eventually taken            *)
(*   SpecTwice  the call repeated with the same arguments                  *)
(*   SpecMac    the call repeated with another mac in the profile          *)
(*   FnSpec     one direct call of a public function of DNS, of the        *)
(*              subnet conversions or of the validators                    *)
(*   UiSpec     the application window of src/src/app, frame by frame      *)
(*                                                                         *)
(* Rust values are modelled as follows.                                    *)
(*   String               a TLA+ string                                    *)
(*   Result<T>            <<"Ok", v>> or <<"Err", e>>, e the error's text  *)
(*   Option<T>            <<"None">> or <<"Some", v>>                      *)
(*   u32                  a pair <<hi, lo>> of 16-bit halves               *)
(*   cfg(target_os = ..)  the variable os                                  *)
(***************************************************************************)
EXTENDS Integers, Sequences, FiniteSets, TLC

(***************************************************************************)
(* Result and Option                                                       *)
(***************************************************************************)
Ok(v) == <<"Ok", v>>

Err(e) == <<"Err", e>>

IsOk(r) == r[1] = "Ok"

IsErr(r) == r[1] = "Err"

Unit == "()"

None == <<"None">>

Some(v) == <<"Some", v>>

(***************************************************************************)
(* Strings: characters, str::starts_with, str::strip_prefix, str::split    *)
(***************************************************************************)
CharAt(s, k) == SubSeq(s, k, k)

Digits == {"0", "1", "2", "3", "4", "5", "6", "7", "8", "9"}

DigitVal(c) ==
    CASE c = "0" -> 0 [] c = "1" -> 1 [] c = "2" -> 2 [] c = "3" -> 3
      [] c = "4" -> 4 [] c = "5" -> 5 [] c = "6" -> 6 [] c = "7" -> 7
      [] c = "8" -> 8 [] c = "9" -> 9

AllDigits(s) == \A k \in 1..Len(s) : CharAt(s, k) \in Digits

starts_with(s, c) == Len(s) >= 1 /\ CharAt(s, 1) = c

\* str::strip_prefix: the rest of the string after the prefix, or None
strip_prefix(s, c) ==
    IF starts_with(s, c) THEN Some(SubSeq(s, 2, Len(s))) ELSE None

\* the decimal value of a string of digits, capped so that it stays small:
\* every caller only compares the value with 255
RECURSIVE DecimalValue(_)
DecimalValue(s) ==
    IF Len(s) = 0 THEN 0
    ELSE LET v == DecimalValue(SubSeq(s, 1, Len(s) - 1)) * 10
                    + DigitVal(CharAt(s, Len(s)))
         IN IF v > 1000 THEN 1000 ELSE v

\* str::parse::<u8>: an optional '+', then one or more decimal digits, value
\* at most 255; anything else is an error
parse_u8(s) ==
    LET body == IF starts_with(s, "+") THEN SubSeq(s, 2, Len(s)) ELSE s
    IN IF Len(body) >= 1 /\ AllDigits(body) /\ DecimalValue(body) <= 255
       THEN Ok(DecimalValue(body))
       ELSE Err("invalid u8")

\* the pieces of s between the dots
RECURSIVE SplitDots(_)
SplitDots(s) ==
    IF \A k \in 1..Len(s) : CharAt(s, k) # "."
    THEN <<s>>
    ELSE LET d == CHOOSE k \in 1..Len(s) :
                    /\ CharAt(s, k) = "."
                    /\ \A j \in 1..(k - 1) : CharAt(s, j) # "."
         IN <<SubSeq(s, 1, d - 1)>> \o SplitDots(SubSeq(s, d + 1, Len(s)))

\* an octet of any value that three digits can have
IsOctet_any_three_digits(s) ==
    /\ Len(s) \in 1..3
    /\ AllDigits(s)
    /\ (Len(s) > 1 => CharAt(s, 1) # "0")

\* one octet of an IPv4 literal: one to three digits, no leading zero unless
\* the octet is "0" itself, value at most 255
IsOctet(s) ==
    /\ Len(s) \in 1..3
    /\ AllDigits(s)
    /\ (Len(s) > 1 => CharAt(s, 1) # "0")
    /\ DecimalValue(s) <= 255

\* str::parse::<Ipv4Addr>: exactly four octets separated by dots; the value
\* is the sequence of the four octets (Ipv4Addr::octets)
parse_Ipv4Addr(s) ==
    LET parts == SplitDots(s)
    IN IF Len(parts) = 4 /\ \A k \in 1..4 : IsOctet(parts[k])
       THEN Ok([k \in 1..4 |-> DecimalValue(parts[k])])
       ELSE Err("invalid IPv4 address syntax")

(***************************************************************************)
(* u32 arithmetic on a pair <<hi, lo>> of 16-bit halves                    *)
(***************************************************************************)
Half == 65536

\* u32::from_be_bytes
from_be_bytes(octets) ==
    <<octets[1] * 256 + octets[2], octets[3] * 256 + octets[4]>>

\* the octets of w in little-endian order
to_le_bytes(w) ==
    <<w[2] % 256, w[2] \div 256, w[1] % 256, w[1] \div 256>>

\* Ipv4Addr::from(u32) followed by octets()
to_be_bytes(w) ==
    <<w[1] \div 256, w[1] % 256, w[2] \div 256, w[2] % 256>>

\* 1u32 << k, for a shift count 0 <= k < 32
ShiftLeftOne(k) == IF k >= 16 THEN <<2 ^ (k - 16), 0>> ELSE <<0, 2 ^ k>>

\* w - 1 (wrapping)
MinusOne(w) ==
    IF w[2] > 0 THEN <<w[1], w[2] - 1>>
    ELSE <<(w[1] + Half - 1) % Half, Half - 1>>

\* !w
BitNot(w) == <<Half - 1 - w[1], Half - 1 - w[2]>>

\* bit k of w, k = 31 the most significant
Bit(w, k) ==
    IF k >= 16 THEN (w[1] \div (2 ^ (k - 16))) % 2 ELSE (w[2] \div (2 ^ k)) % 2

\* u32::leading_ones
leading_ones(w) ==
    IF \A k \in 0..31 : Bit(w, k) = 1 THEN 32
    ELSE 31 - (CHOOSE k \in 0..31 :
                 /\ Bit(w, k) = 0
                 /\ \A j \in (k + 1)..31 : Bit(w, j) = 1)

\* u32::trailing_zeros
trailing_zeros(w) ==
    IF \A k \in 0..31 : Bit(w, k) = 0 THEN 32
    ELSE CHOOSE k \in 0..31 :
           /\ Bit(w, k) = 1
           /\ \A j \in 0..(k - 1) : Bit(w, j) = 0

\* Ipv4Addr's Display: the four octets in decimal, joined by dots
Ipv4ToString(octets) ==
    ToString(octets[1]) \o "." \o ToString(octets[2]) \o "."
        \o ToString(octets[3]) \o "." \o ToString(octets[4])

(***************************************************************************)
(* Subnet notation                                                         *)
(***************************************************************************)
\* the conversion with the shift by prefix_len instead of 32 - prefix_len
cidr_to_dotted_decimal_shift_by_prefix(cidr) ==
    LET stripped == strip_prefix(cidr, "/")
        parsed == IF stripped = None THEN Err("no prefix") ELSE parse_u8(stripped[2])
    IN IF stripped # None /\ IsOk(parsed) /\ parsed[2] <= 32
       THEN LET prefix_len == parsed[2]
                mask == IF prefix_len = 0 THEN <<0, 0>>
                        ELSE BitNot(MinusOne(ShiftLeftOne(prefix_len)))
            IN Ok(Ipv4ToString(to_be_bytes(mask)))
       ELSE Err("Invalid CIDR notation: " \o cidr)

cidr_to_dotted_decimal(cidr) ==
    LET stripped == strip_prefix(cidr, "/")
        parsed == IF stripped = None THEN Err("no prefix") ELSE parse_u8(stripped[2])
    IN IF stripped # None /\ IsOk(parsed) /\ parsed[2] <= 32
       THEN LET prefix_len == parsed[2]
                mask == IF prefix_len = 0 THEN <<0, 0>>
                        ELSE BitNot(MinusOne(ShiftLeftOne(32 - prefix_len)))
            IN Ok(Ipv4ToString(to_be_bytes(mask)))
       ELSE Err("Invalid CIDR notation: " \o cidr)

\* the conversion without the check that the ones are followed by zeros only
dotted_decimal_to_cidr_unverified(subnet) ==
    LET addr == parse_Ipv4Addr(subnet)
    IN IF IsOk(addr)
       THEN LET mask == from_be_bytes(addr[2])
                prefix_len == leading_ones(mask)
            IN Ok("/" \o ToString(prefix_len))
       ELSE Err("Invalid dotted decimal notation: " \o subnet)

dotted_decimal_to_cidr(subnet) ==
    LET addr == parse_Ipv4Addr(subnet)
    IN IF IsOk(addr)
       THEN LET mask == from_be_bytes(addr[2])
                prefix_len == leading_ones(mask)
            IN IF leading_ones(mask) + trailing_zeros(mask) = 32
               THEN Ok("/" \o ToString(prefix_len))
               ELSE Err("Invalid subnet mask: " \o subnet)
       ELSE Err("Invalid dotted decimal notation: " \o subnet)

\* normalize_subnet_for_os whose Windows body checks the dotted-decimal
\* subnets it is given
normalize_subnet_for_os_windows_validates(target_os, subnet) ==
    IF target_os = "windows"
    THEN IF starts_with(subnet, "/") THEN cidr_to_dotted_decimal(subnet)
         ELSE IF IsOk(dotted_decimal_to_cidr(subnet)) THEN Ok(subnet)
         ELSE dotted_decimal_to_cidr(subnet)
    ELSE IF starts_with(subnet, "/") THEN Ok(subnet)
         ELSE dotted_decimal_to_cidr(subnet)

\* the two cfg(target_os) bodies of normalize_subnet_for_os
normalize_subnet_for_os(target_os, subnet) ==
    IF target_os = "windows"
    THEN IF starts_with(subnet, "/") THEN cidr_to_dotted_decimal(subnet)
         ELSE Ok(subnet)
    ELSE IF starts_with(subnet, "/") THEN Ok(subnet)
         ELSE dotted_decimal_to_cidr(subnet)

(***************************************************************************)
(* The validators of the form fields                                       *)
(***************************************************************************)
check_valid_ipv4(ip_address) == IsOk(parse_Ipv4Addr(ip_address))

\* the validator without the upper limit of the prefix length
check_valid_subnet_any_u8(subnet) ==
    IF IsOk(parse_Ipv4Addr(subnet))
    THEN LET addr == parse_Ipv4Addr(subnet)
             mask == from_be_bytes(addr[2])
         IN leading_ones(mask) + trailing_zeros(mask) = 32
    ELSE IF starts_with(subnet, "/") /\ Len(subnet) > 1
         THEN IsOk(parse_u8(SubSeq(subnet, 2, Len(subnet))))
         ELSE FALSE

check_valid_subnet(subnet) ==
    IF IsOk(parse_Ipv4Addr(subnet))
    THEN LET addr == parse_Ipv4Addr(subnet)
             mask == from_be_bytes(addr[2])
         IN leading_ones(mask) + trailing_zeros(mask) = 32
    ELSE IF starts_with(subnet, "/") /\ Len(subnet) > 1
         THEN LET cidr == parse_u8(SubSeq(subnet, 2, Len(subnet)))
              IN IF IsOk(cidr) THEN cidr[2] <= 32 ELSE FALSE
         ELSE FALSE

(***************************************************************************)
(* DNS                                                                     *)
(***************************************************************************)
DNS_None == <<"DNS::None">>

DNS_Quad9 == <<"DNS::Quad9">>

DNS_Google == <<"DNS::Google">>

DNS_Cloudflare == <<"DNS::Cloudflare">>

DNS_OpenDNS == <<"DNS::OpenDNS">>

DNS_Custom(primary, secondary) == <<"DNS::Custom", primary, secondary>>

QUAD9 == <<"9.9.9.9", "149.112.112.112">>

GOOGLE == <<"8.8.8.8", "8.8.4.4">>

CLOUDFLARE == <<"1.1.1.2", "1.0.0.2">>

OPENDNS == <<"208.67.222.222", "208.67.220.220">>

\* addresses() with the primary of Custom in both places
addresses_custom_primary_twice(dns) ==
    CASE dns = DNS_None -> None
      [] dns = DNS_Quad9 -> Some(<<QUAD9[1], QUAD9[2]>>)
      [] dns = DNS_Google -> Some(<<GOOGLE[1], GOOGLE[2]>>)
      [] dns = DNS_Cloudflare -> Some(<<CLOUDFLARE[1], CLOUDFLARE[2]>>)
      [] dns = DNS_OpenDNS -> Some(<<OPENDNS[1], OPENDNS[2]>>)
      [] OTHER -> Some(<<dns[2], dns[2]>>)

addresses(dns) ==
    CASE dns = DNS_None -> None
      [] dns = DNS_Quad9 -> Some(<<QUAD9[1], QUAD9[2]>>)
      [] dns = DNS_Google -> Some(<<GOOGLE[1], GOOGLE[2]>>)
      [] dns = DNS_Cloudflare -> Some(<<CLOUDFLARE[1], CLOUDFLARE[2]>>)
      [] dns = DNS_OpenDNS -> Some(<<OPENDNS[1], OPENDNS[2]>>)
      [] OTHER -> Some(<<dns[2], dns[3]>>)

\* primary() without an address for a Custom value
primary_custom_none(dns) ==
    CASE dns = DNS_None -> None
      [] dns = DNS_Quad9 -> Some(QUAD9[1])
      [] dns = DNS_Google -> Some(GOOGLE[1])
      [] dns = DNS_Cloudflare -> Some(CLOUDFLARE[1])
      [] dns = DNS_OpenDNS -> Some(OPENDNS[1])
      [] OTHER -> None

\* primary() with the unfiltered address of Cloudflare
primary_cloudflare_unfiltered(dns) ==
    CASE dns = DNS_None -> None
      [] dns = DNS_Quad9 -> Some(QUAD9[1])
      [] dns = DNS_Google -> Some(GOOGLE[1])
      [] dns = DNS_Cloudflare -> Some("1.1.1.1")
      [] dns = DNS_OpenDNS -> Some(OPENDNS[1])
      [] OTHER -> Some(dns[2])

primary(dns) ==
    CASE dns = DNS_None -> None
      [] dns = DNS_Quad9 -> Some(QUAD9[1])
      [] dns = DNS_Google -> Some(GOOGLE[1])
      [] dns = DNS_Cloudflare -> Some(CLOUDFLARE[1])
      [] dns = DNS_OpenDNS -> Some(OPENDNS[1])
      [] OTHER -> Some(dns[2])

\* secondary() written from primary(): the first address of each pair
secondary_is_primary(dns) ==
    CASE dns = DNS_None -> None
      [] dns = DNS_Quad9 -> Some(QUAD9[1])
      [] dns = DNS_Google -> Some(GOOGLE[1])
      [] dns = DNS_Cloudflare -> Some(CLOUDFLARE[1])
      [] dns = DNS_OpenDNS -> Some(OPENDNS[1])
      [] OTHER -> Some(dns[2])

secondary(dns) ==
    CASE dns = DNS_None -> None
      [] dns = DNS_Quad9 -> Some(QUAD9[2])
      [] dns = DNS_Google -> Some(GOOGLE[2])
      [] dns = DNS_Cloudflare -> Some(CLOUDFLARE[2])
      [] dns = DNS_OpenDNS -> Some(OPENDNS[2])
      [] OTHER -> Some(dns[3])

\* Option::unwrap: defined only on Some
unwrap(opt) == CASE opt[1] = "Some" -> opt[2]

\* Option::unwrap on None: the thread panics
Panic == <<"panic", "called Option::unwrap() on a None value">>

(***************************************************************************)
(* Removal of the rows and profiles marked in one frame                    *)
(***************************************************************************)
\* Vec::remove(index), index counted from 0 and inside the vector: the
\* element is taken out and the ones after it move down
Vec_remove(vec, index) ==
    SubSeq(vec, 1, index) \o SubSeq(vec, index + 2, Len(vec))

\* `for (i, item) in vec.iter().enumerate() { if <marked> { indices.push(i) } }`
\* over a vector of n elements: the indices of the marked elements, each
\* once, in ascending order
MarkedIndices(n) ==
    {indices \in UNION {[1..k -> 0..(n - 1)] : k \in 0..n} :
        \A a, b \in 1..Len(indices) : a < b => indices[a] < indices[b]}

\* the loop without .rev(): the indices taken from the first to the last
RECURSIVE remove_items_by_indices_forward(_, _)
remove_items_by_indices_forward(vec, indices) ==
    IF indices = <<>>
    THEN vec
    ELSE IF indices[1] >= Len(vec)
    THEN Panic
    ELSE remove_items_by_indices_forward(
             Vec_remove(vec, indices[1]), SubSeq(indices, 2, Len(indices)))

\* `for &i in indices.iter().rev() { vec.remove(i); }`: the vector after
\* the loop, or Panic when Vec::remove is given an index that is not inside
\* the vector
RECURSIVE remove_items_by_indices(_, _)
remove_items_by_indices(vec, indices) ==
    IF indices = <<>>
    THEN vec
    ELSE IF indices[Len(indices)] >= Len(vec)
    THEN Panic
    ELSE remove_items_by_indices(
             Vec_remove(vec, indices[Len(indices)]),
             SubSeq(indices, 1, Len(indices) - 1))

(***************************************************************************)
(* The inputs of load_profile                                              *)
(***************************************************************************)
MaxIps == 3

MaxGateways == 3

\* IP { address, subnet }: a subnet both platforms take ("/24": converted on
\* Windows, passed through on Linux), one that only Windows rejects ("/33")
\* and one that only Linux rejects (the mask with a gap)
IPs ==
    { [address |-> "10.0.0.5", subnet |-> "/24"],
      [address |-> "10.0.0.7", subnet |-> "/33"],
      [address |-> "not.an.ip", subnet |-> "255.0.255.0"] }

\* the subnets the profiles hold: those of IPs, and the one of the row a
\* new profile starts with
ProfileSubnets == {ip.subnet : ip \in IPs} \cup {"255.255.255.0"}

\* normalize_subnet_for_os on each platform for each subnet of a profile,
\* computed once
normalize_subnet_for_os_of ==
    [target_os \in {"windows", "linux"}, subnet \in ProfileSubnets |->
        normalize_subnet_for_os(target_os, subnet)]

Gateways == {"10.0.0.1", "10.0.0.254"}

DNSs ==
    { DNS_None, DNS_Quad9, DNS_Google, DNS_Cloudflare, DNS_OpenDNS,
      DNS_Custom("192.168.1.53", "192.168.2.53") }

Adapters == {"eth0"}

SeqsUpTo(S, n) == UNION { [1..k -> S] : k \in 0..n }

NetworkProfiles ==
    [ name : {"office"},
      ips : SeqsUpTo(IPs, MaxIps),
      gateways : SeqsUpTo(Gateways, MaxGateways),
      dns : DNSs,
      mac : {None} ]

(***************************************************************************)
(* State                                                                   *)
(*   os                 the platform the program was built for             *)
(*   adapter, profile   the arguments of load_profile                      *)
(*   pc, i              where load_profile is, and the index (from 1) of   *)
(*                      the ips / gateways entry its loop is at            *)
(*   normalized_subnet  the local of set_ip_addr / add_ip_addr             *)
(*   cmds               every external command issued so far, with its     *)
(*                      outcome ("pending" while the process runs)         *)
(*   calls              every call of set_ip_addr, add_ip_addr,            *)
(*                      add_gateway and set_dns with its return value      *)
(*   result             what load_profile returned                         *)
(*   stdout             the lines written with println!                    *)
(*   first_call         when load_profile is called a second time: the     *)
(*                      commands, calls and result of the first call       *)
(*   arg_dns, arg_subnet, arg_ip_address                                   *)
(*                      the arguments of a direct call of one of the DNS,  *)
(*                      subnet and validation functions                    *)
(*   arg_vec, arg_indices                                                  *)
(*                      the arguments of a direct call of                  *)
(*                      remove_items_by_indices                            *)
(*   arg_file           what import_profiles_from_file makes of the file   *)
(*                      given to a direct call of import_profiles          *)
(*   called, returned   the function called directly and what it returned  *)
(*   profiles, builder, loader, toasts                                     *)
(*                      the fields of the application NetProfiler: the     *)
(*                      collection, the profile being built, the loader    *)
(*                      window, the notifications added so far             *)
(*   last_result        what ProfileLoader::take_last_result hands out     *)
(*   apply_requests     every click on Apply so far, with the interface    *)
(*                      selected and what load_profile returned            *)
(***************************************************************************)
VARIABLES os, adapter, profile, pc, i, normalized_subnet, cmds, calls, result,
          stdout, first_call, arg_dns, arg_subnet, arg_ip_address, arg_vec,
          arg_indices, arg_file, called, returned, profiles, builder, loader, last_result, toasts,
          apply_requests

\* the state of the direct calls of the DNS and subnet functions
fn_vars ==
    <<arg_dns, arg_subnet, arg_ip_address, arg_vec, arg_indices, arg_file,
      called, returned>>

\* the state of the application window
ui_vars == <<profiles, builder, loader, last_result, toasts, apply_requests>>

vars == <<os, adapter, profile, pc, i, normalized_subnet, cmds, calls, result,
          stdout, first_call, fn_vars, ui_vars>>

Pending == <<"Pending">>

\* the three outcomes of Command::output(): Ok with a successful status, Ok
\* with a failure status, Err (the process could not be spawned)
Outcomes == {"success", "failure", "spawn_error"}

\* String::from_utf8_lossy(&output.stderr) of the k-th command issued: each
\* process writes a diagnostic of its own
Stderr(k) == "stderr of command " \o ToString(k)

\* the io::Error of the k-th command issued, as text
IoError(k) == "io error of command " \o ToString(k)

InFlight == cmds # <<>> /\ cmds[Len(cmds)].out = "pending"

\* load_profile has been called once so far
NoCall == [made |-> FALSE, cmds |-> <<>>, calls |-> <<>>, result |-> Pending]

\* the outcomes the command in flight can have: any of the three, except
\* in a second call of load_profile, where the environment answers the k-th
\* command as it answered the k-th command of the first call
OutcomesNow ==
    IF first_call.made /\ Len(cmds) <= Len(first_call.cmds)
    THEN {first_call.cmds[Len(cmds)].out}
    ELSE Outcomes

Issue(op, program, args) ==
    cmds' = Append(cmds, [op |-> op, program |-> program, args |-> args,
                          out |-> "pending"])

Complete(outcome) == cmds' = [cmds EXCEPT ![Len(cmds)].out = outcome]

Call(fn, args) == Append(calls, [fn |-> fn, args |-> args, ret |-> Pending])

Returned(cs, r) == [cs EXCEPT ![Len(cs)].ret = r]

(***************************************************************************)
(* The argument lists of the external commands                             *)
(***************************************************************************)
\* the primary address checked before it is handed to netsh: one that is
\* not valid is replaced
netsh_set_address_checked(a, ip_address, subnet, gateway_arg) ==
    <<"interface", "ip", "set", "address", a, "static",
      IF check_valid_ipv4(ip_address) THEN ip_address ELSE "0.0.0.0", subnet,
      gateway_arg>>

netsh_set_address(a, ip_address, subnet, gateway_arg) ==
    <<"interface", "ip", "set", "address", a, "static", ip_address, subnet,
      gateway_arg>>

ip_addr_flush(a) == <<"addr", "flush", "dev", a>>

ip_addr_add(a, ip_address, subnet) ==
    <<"addr", "add", ip_address \o subnet, "dev", a>>

ip_route_add_default(a, gateway) ==
    <<"route", "add", "default", "via", gateway, "dev", a>>

netsh_add_address(a, ip_address, subnet) ==
    <<"interface", "ip", "add", "address", a, ip_address, subnet>>

netsh_add_route(a, gateway, metric) ==
    <<"interface", "ip", "add", "route", "0.0.0.0/0", gateway, a, "metric",
      ToString(metric)>>

ip_route_add_metric(a, gateway, metric) ==
    <<"route", "add", "default", "via", gateway, "dev", a, "metric",
      ToString(metric)>>

powershell_dns_dhcp(a) ==
    <<"-Command",
      "netsh interface ip set dnsservers \"" \o a \o "\" source=dhcp">>

powershell_dns_static(a, p, s) ==
    <<"-Command",
      "netsh interface ip set dns \"" \o a \o "\" static " \o p
        \o " primary validate=no; netsh interface ip add dns \"" \o a \o "\" "
        \o s \o " validate=no">>

nmcli_dns_auto(a) ==
    <<"con", "modify", a, "ipv4.dns", "", "ipv4.ignore-auto-dns", "no">>

nmcli_dns_static(a, p, s) ==
    <<"con", "modify", a, "ipv4.dns", p \o "," \o s, "ipv4.ignore-auto-dns",
      "yes">>

\* the command set_dns runs, if any: <<program, args>>; Panic when one of
\* the two unwraps of the Windows body meets None
set_dns_command(target_os, a, dns) ==
    IF target_os = "windows"
    THEN IF dns = DNS_None
         THEN Some(<<"powershell", powershell_dns_dhcp(a)>>)
         ELSE IF primary(dns) = None \/ secondary(dns) = None
         THEN Panic
         ELSE Some(<<"powershell",
                     powershell_dns_static(a, unwrap(primary(dns)),
                                           unwrap(secondary(dns)))>>)
    ELSE IF dns = DNS_None
         THEN Some(<<"nmcli", nmcli_dns_auto(a)>>)
         ELSE LET pair == addresses(dns)
              IN IF pair # None
                 THEN Some(<<"nmcli",
                             nmcli_dns_static(a, pair[2][1], pair[2][2])>>)
                 ELSE None

(***************************************************************************)
(* What each step makes of the outcome of its command, k the command's     *)
(* position in cmds                                                        *)
(***************************************************************************)
\* the match of set_ip_addr on the netsh / "ip addr add" output
set_ip_addr_match(outcome, k) ==
    CASE outcome = "success" -> Ok(Unit)
      [] outcome = "failure" -> Err(Stderr(k))
      [] outcome = "spawn_error" -> Err(IoError(k))

\* `if let Err(e) = output` after "ip addr flush": the exit status is not read
set_ip_addr_flush_match(outcome, k) ==
    IF outcome = "spawn_error" THEN Err(IoError(k)) ELSE Ok(Unit)

\* the match on the "ip route add default" output with the arms of the
\* match on "ip addr add": a failure is returned
set_ip_addr_gateway_match_returns_err(outcome, k) ==
    CASE outcome = "success" -> Ok(Unit)
      [] outcome = "failure" -> Err(Stderr(k))
      [] outcome = "spawn_error" -> Err(IoError(k))

\* the match on the "ip route add default" output: warnings only
set_ip_addr_gateway_match(outcome, k) == Ok(Unit)

\* the captured stderr is replaced by a fixed message
add_ip_addr_match_fixed_message(outcome, k) ==
    CASE outcome = "success" -> Ok(Unit)
      [] outcome = "failure" -> Err("Error adding IP address")
      [] outcome = "spawn_error" -> Err(IoError(k))

add_ip_addr_match(outcome, k) ==
    CASE outcome = "success" -> Ok(Unit)
      [] outcome = "failure" -> Err(Stderr(k))
      [] outcome = "spawn_error" -> Err(IoError(k))

add_gateway_match(outcome, k) ==
    CASE outcome = "success" -> Ok(Unit)
      [] outcome = "failure" -> Err(Stderr(k))
      [] outcome = "spawn_error" -> Err(IoError(k))

\* the match of set_dns: Ok(_) => {} whatever the exit status
set_dns_match(outcome, k) ==
    IF outcome = "spawn_error" THEN Err(IoError(k)) ELSE Ok(Unit)

(***************************************************************************)
(* The control flow of load_profile                                        *)
(***************************************************************************)
\* `if profile.gateways.len() > 1` without the skip(1): every gateway is added
load_profile_gateways_no_skip(p) ==
    IF Len(p.gateways) > 1
    THEN [pc |-> "add_gateway", i |-> 1, result |-> Pending]
    ELSE [pc |-> "set_dns", i |-> 0, result |-> Pending]

\* the loop over the later gateways compiled for Windows only
load_profile_gateways_windows_only(p) ==
    IF Len(p.gateways) > 1 /\ os = "windows"
    THEN [pc |-> "add_gateway", i |-> 2, result |-> Pending]
    ELSE [pc |-> "set_dns", i |-> 0, result |-> Pending]

\* `if profile.gateways.len() > 1 { for .. in gateways.iter().skip(1) ..}`,
\* then set_dns
load_profile_gateways(p) ==
    IF Len(p.gateways) > 1
    THEN [pc |-> "add_gateway", i |-> 2, result |-> Pending]
    ELSE [pc |-> "set_dns", i |-> 0, result |-> Pending]

\* the loop over ips that stops one entry early
load_profile_ips_loop_stops_early(p, k) ==
    IF k < Len(p.ips)
    THEN [pc |-> "add_ip_addr", i |-> k, result |-> Pending]
    ELSE load_profile_gateways(p)

\* `for ip in profile.ips.iter().skip(1)` at the entry k (from 1), and what
\* follows the loop
load_profile_ips_loop(p, k) ==
    IF k <= Len(p.ips)
    THEN [pc |-> "add_ip_addr", i |-> k, result |-> Pending]
    ELSE load_profile_gateways(p)

\* the loop over ips without the skip(1): the first entry is added again
load_profile_after_primary_no_skip(p) == load_profile_ips_loop(p, 1)

\* the primary operation returned Ok: the loop starts after the first entry
load_profile_after_primary(p) == load_profile_ips_loop(p, 2)

\* the error of add_gateway is dropped
load_profile_returns_err_but_gateway(step, r) ==
    IsErr(r) /\ step # "add_gateway"

\* the error of set_dns is dropped
load_profile_returns_err_but_dns(step, r) == IsErr(r) /\ step # "set_dns"

\* `if let Err(e) = <step>(..) { ..; return Err(e); }`, the same for the
\* four steps
load_profile_returns_err(step, r) == IsErr(r)

\* the MAC override of the profile is applied after the DNS step, and is
\* refused
load_profile_next_sets_mac(step, k, r, p) ==
    IF IsErr(r)
    THEN [pc |-> "done", i |-> k, result |-> r]
    ELSE CASE step = "set_ip_addr" -> load_profile_after_primary(p)
           [] step = "add_ip_addr" -> load_profile_ips_loop(p, k + 1)
           [] step = "add_gateway" ->
                IF k < Len(p.gateways)
                THEN [pc |-> "add_gateway", i |-> k + 1, result |-> Pending]
                ELSE [pc |-> "set_dns", i |-> 0, result |-> Pending]
           [] step = "set_dns" ->
                [pc |-> "done", i |-> 0,
                 result |-> IF p.mac = None THEN Ok(Unit)
                            ELSE Err("Invalid MAC address: "
                                         \o p.mac[2].address)]

\* set_dns is called again when it returned an error
load_profile_next_retries_dns(step, k, r, p) ==
    IF IsErr(r)
    THEN IF step = "set_dns"
         THEN [pc |-> "set_dns", i |-> 0, result |-> Pending]
         ELSE [pc |-> "done", i |-> k, result |-> r]
    ELSE CASE step = "set_ip_addr" -> load_profile_after_primary(p)
           [] step = "add_ip_addr" -> load_profile_ips_loop(p, k + 1)
           [] step = "add_gateway" ->
                IF k < Len(p.gateways)
                THEN [pc |-> "add_gateway", i |-> k + 1, result |-> Pending]
                ELSE [pc |-> "set_dns", i |-> 0, result |-> Pending]
           [] step = "set_dns" -> [pc |-> "done", i |-> 0, result |-> Ok(Unit)]

\* where load_profile goes when the step it called for entry k returns r
load_profile_next(step, k, r, p) ==
    IF load_profile_returns_err(step, r)
    THEN [pc |-> "done", i |-> k, result |-> r]
    ELSE CASE step = "set_ip_addr" -> load_profile_after_primary(p)
           [] step = "add_ip_addr" -> load_profile_ips_loop(p, k + 1)
           [] step = "add_gateway" ->
                IF k < Len(p.gateways)
                THEN [pc |-> "add_gateway", i |-> k + 1, result |-> Pending]
                ELSE [pc |-> "set_dns", i |-> 0, result |-> Pending]
           [] step = "set_dns" -> [pc |-> "done", i |-> 0, result |-> Ok(Unit)]

SuccessMessage(p, a) ==
    "Successfully loaded profile '" \o p.name \o "' on adapter '" \o a \o "'"

\* the step called for entry k returns r to load_profile, having printed
\* `lines`; cs is calls with the step's call recorded
StepReturns(step, k, cs, r, lines) ==
    LET n == load_profile_next(step, k, r, profile)
    IN /\ pc' = n.pc
       /\ i' = n.i
       /\ result' = n.result
       /\ calls' = Returned(cs, r)
       /\ stdout' = stdout \o lines
                      \o (IF IsOk(n.result)
                          THEN <<SuccessMessage(profile, adapter)>> ELSE <<>>)

(***************************************************************************)
(* The application before its first frame                                  *)
(***************************************************************************)
\* NetworkProfile::default()
NetworkProfile_default ==
    [name |-> "", ips |-> <<>>, gateways |-> <<>>, dns |-> DNS_None,
     mac |-> None]

\* ProfileLoader::default(); the list of interfaces is read again each time
\* the window opens and is not kept here
ProfileLoader_default ==
    [visible |-> FALSE, selected_interface |-> None,
     profile |-> NetworkProfile_default]

\* NetProfiler::default(): no profile, no builder, the loader window closed,
\* no notification
NetProfiler_default ==
    /\ profiles = <<>>
    /\ builder = None
    /\ loader = ProfileLoader_default
    /\ last_result = None
    /\ toasts = <<>>
    /\ apply_requests = <<>>

(***************************************************************************)
(* Init: load_profile is about to run on some profile                      *)
(***************************************************************************)
Init ==
    /\ os \in {"windows", "linux"}
    /\ adapter \in Adapters
    /\ profile \in NetworkProfiles
    /\ pc = "load_profile"
    /\ i = 0
    /\ normalized_subnet = ""
    /\ cmds = <<>>
    /\ calls = <<>>
    /\ result = Pending
    /\ stdout = <<>>
    /\ first_call = NoCall
    /\ arg_dns = DNS_None
    /\ arg_subnet = ""
    /\ arg_ip_address = ""
    /\ arg_vec = <<>>
    /\ arg_indices = <<>>
    /\ arg_file = None
    /\ called = "none"
    /\ returned = Unit
    /\ NetProfiler_default

\* the first gateway is handed out once: a later call finds none
first_gateway_once(p) ==
    IF p.gateways = <<>> \/ first_call.made THEN None ELSE Some(p.gateways[1])

\* profile.gateways.first().map(|x| x.as_str())
first_gateway(p) == IF p.gateways = <<>> THEN None ELSE Some(p.gateways[1])

(***************************************************************************)
(* Step 1: set_ip_addr for the first entry of ips                          *)
(***************************************************************************)
\* set_ip_addr starts its first command before it has looked at the subnet
load_profile_set_ip_addr_command_first ==
    /\ pc = "load_profile"
    /\ profile.ips # <<>>
    /\ LET first_address == profile.ips[1]
           gateway == first_gateway(profile)
           cs == Call("set_ip_addr",
                      <<adapter, first_address.address, first_address.subnet,
                        gateway>>)
           n == normalize_subnet_for_os_of[os, first_address.subnet]
           subnet == IF IsErr(n) THEN first_address.subnet ELSE n[2]
       IN /\ normalized_subnet' = subnet
          /\ calls' = cs
          /\ i' = 1
          /\ IF os = "windows"
             THEN /\ pc' = "set_ip_addr.netsh"
                  /\ Issue("set_ip_addr", "netsh",
                           netsh_set_address(
                               adapter, first_address.address, subnet,
                               IF gateway = None THEN "none"
                               ELSE gateway[2]))
             ELSE /\ pc' = "set_ip_addr.flush"
                  /\ Issue("set_ip_addr", "ip", ip_addr_flush(adapter))
          /\ UNCHANGED <<result, stdout>>
    /\ UNCHANGED <<os, adapter, profile>>
    /\ UNCHANGED <<first_call, fn_vars, ui_vars>>

\* load_profile finds a first address and calls set_ip_addr, which
\* normalizes the subnet and starts its first command
load_profile_set_ip_addr ==
    /\ pc = "load_profile"
    /\ profile.ips # <<>>
    /\ LET first_address == profile.ips[1]
           gateway == first_gateway(profile)
           cs == Call("set_ip_addr",
                      <<adapter, first_address.address, first_address.subnet,
                        gateway>>)
           n == normalize_subnet_for_os_of[os, first_address.subnet]
       IN IF IsErr(n)
          THEN /\ StepReturns("set_ip_addr", 1, cs, n, <<>>)
               /\ UNCHANGED <<normalized_subnet, cmds>>
          ELSE /\ normalized_subnet' = n[2]
               /\ calls' = cs
               /\ i' = 1
               /\ IF os = "windows"
                  THEN /\ pc' = "set_ip_addr.netsh"
                       /\ Issue("set_ip_addr", "netsh",
                                netsh_set_address(
                                    adapter, first_address.address, n[2],
                                    IF gateway = None THEN "none"
                                    ELSE gateway[2]))
                  ELSE /\ pc' = "set_ip_addr.flush"
                       /\ Issue("set_ip_addr", "ip", ip_addr_flush(adapter))
               /\ UNCHANGED <<result, stdout>>
    /\ UNCHANGED <<os, adapter, profile>>
    /\ UNCHANGED <<first_call, fn_vars, ui_vars>>

\* ips is empty: load_profile returns at once, having configured nothing
load_profile_no_ips_returns ==
    /\ pc = "load_profile"
    /\ profile.ips = <<>>
    /\ pc' = "done"
    /\ result' = Ok(Unit)
    /\ stdout' = Append(stdout, SuccessMessage(profile, adapter))
    /\ UNCHANGED <<os, adapter, profile, i, normalized_subnet, cmds, calls>>
    /\ UNCHANGED <<first_call, fn_vars, ui_vars>>

\* ips is empty: load_profile goes on to the gateways
load_profile_no_ips ==
    /\ pc = "load_profile"
    /\ profile.ips = <<>>
    /\ LET n == load_profile_gateways(profile)
       IN pc' = n.pc /\ i' = n.i
    /\ UNCHANGED <<os, adapter, profile, normalized_subnet, cmds, calls,
                   result, stdout>>
    /\ UNCHANGED <<first_call, fn_vars, ui_vars>>

\* Windows: netsh interface ip set address returns
set_ip_addr_netsh_returns ==
    /\ pc = "set_ip_addr.netsh"
    /\ InFlight
    /\ \E outcome \in OutcomesNow :
         LET r == set_ip_addr_match(outcome, Len(cmds))
             gateway == first_gateway(profile)
         IN /\ Complete(outcome)
            /\ StepReturns("set_ip_addr", 1, calls, r,
                   IF IsOk(r)
                   THEN <<"Successfully set primary IP address: "
                            \o profile.ips[1].address \o " on " \o adapter
                            \o " (Gateway: "
                            \o (IF gateway = None THEN "none" ELSE gateway[2])
                            \o ")">>
                   ELSE <<>>)
    /\ UNCHANGED <<os, adapter, profile, normalized_subnet>>
    /\ UNCHANGED <<first_call, fn_vars, ui_vars>>

\* Linux: ip addr flush returns
set_ip_addr_flush_returns ==
    /\ pc = "set_ip_addr.flush"
    /\ InFlight
    /\ \E outcome \in OutcomesNow :
         LET r == set_ip_addr_flush_match(outcome, Len(cmds))
         IN /\ Complete(outcome)
            /\ IF IsErr(r)
               THEN StepReturns("set_ip_addr", 1, calls, r, <<>>)
               ELSE /\ pc' = "set_ip_addr.add"
                    /\ UNCHANGED <<i, result, calls, stdout>>
    /\ UNCHANGED <<os, adapter, profile, normalized_subnet>>
    /\ UNCHANGED <<first_call, fn_vars, ui_vars>>

\* Linux: set_ip_addr starts ip addr add
set_ip_addr_add ==
    /\ pc = "set_ip_addr.add"
    /\ ~InFlight
    /\ Issue("set_ip_addr", "ip",
             ip_addr_add(adapter, profile.ips[1].address, normalized_subnet))
    /\ UNCHANGED <<os, adapter, profile, pc, i, normalized_subnet, calls,
                   result, stdout>>
    /\ UNCHANGED <<first_call, fn_vars, ui_vars>>

\* Linux: ip addr add returns
set_ip_addr_add_returns ==
    /\ pc = "set_ip_addr.add"
    /\ InFlight
    /\ \E outcome \in OutcomesNow :
         LET r == set_ip_addr_match(outcome, Len(cmds))
             line == "Successfully set primary IP address: "
                        \o profile.ips[1].address \o " on " \o adapter
         IN /\ Complete(outcome)
            /\ IF IsErr(r)
               THEN StepReturns("set_ip_addr", 1, calls, r, <<>>)
               ELSE IF first_gateway(profile) # None
                    THEN /\ pc' = "set_ip_addr.route"
                         /\ stdout' = Append(stdout, line)
                         /\ UNCHANGED <<i, result, calls>>
                    ELSE StepReturns("set_ip_addr", 1, calls, Ok(Unit),
                                     <<line>>)
    /\ UNCHANGED <<os, adapter, profile, normalized_subnet>>
    /\ UNCHANGED <<first_call, fn_vars, ui_vars>>

\* Linux: set_ip_addr starts ip route add default via the first gateway
set_ip_addr_route ==
    /\ pc = "set_ip_addr.route"
    /\ ~InFlight
    /\ Issue("set_ip_addr", "ip",
             ip_route_add_default(adapter, first_gateway(profile)[2]))
    /\ UNCHANGED <<os, adapter, profile, pc, i, normalized_subnet, calls,
                   result, stdout>>
    /\ UNCHANGED <<first_call, fn_vars, ui_vars>>

\* Linux: ip route add default returns; set_ip_addr returns Ok(())
set_ip_addr_route_returns ==
    /\ pc = "set_ip_addr.route"
    /\ InFlight
    /\ \E outcome \in OutcomesNow :
         LET r == set_ip_addr_gateway_match(outcome, Len(cmds))
         IN /\ Complete(outcome)
            /\ StepReturns("set_ip_addr", 1, calls, r,
                   IF outcome = "success"
                   THEN <<"Successfully set gateway: "
                            \o first_gateway(profile)[2] \o " on " \o adapter>>
                   ELSE <<>>)
    /\ UNCHANGED <<os, adapter, profile, normalized_subnet>>
    /\ UNCHANGED <<first_call, fn_vars, ui_vars>>

(***************************************************************************)
(* Step 2: add_ip_addr for the entries of ips after the first              *)
(***************************************************************************)
add_ip_addr ==
    /\ pc = "add_ip_addr"
    /\ ~InFlight
    /\ LET ip == profile.ips[i]
           cs == Call("add_ip_addr", <<adapter, ip.address, ip.subnet>>)
           n == normalize_subnet_for_os_of[os, ip.subnet]
       IN IF IsErr(n)
          THEN /\ StepReturns("add_ip_addr", i, cs, n, <<>>)
               /\ UNCHANGED <<normalized_subnet, cmds>>
          ELSE /\ normalized_subnet' = n[2]
               /\ calls' = cs
               /\ IF os = "windows"
                  THEN Issue("add_ip_addr", "netsh",
                             netsh_add_address(adapter, ip.address, n[2]))
                  ELSE Issue("add_ip_addr", "ip",
                             ip_addr_add(adapter, ip.address, n[2]))
               /\ UNCHANGED <<pc, i, result, stdout>>
    /\ UNCHANGED <<os, adapter, profile>>
    /\ UNCHANGED <<first_call, fn_vars, ui_vars>>

add_ip_addr_returns ==
    /\ pc = "add_ip_addr"
    /\ InFlight
    /\ \E outcome \in OutcomesNow :
         LET r == add_ip_addr_match(outcome, Len(cmds))
         IN /\ Complete(outcome)
            /\ StepReturns("add_ip_addr", i, calls, r,
                   IF IsOk(r)
                   THEN <<"Successfully added IP address: "
                            \o profile.ips[i].address \o " on " \o adapter>>
                   ELSE <<>>)
    /\ UNCHANGED <<os, adapter, profile, normalized_subnet>>
    /\ UNCHANGED <<first_call, fn_vars, ui_vars>>

(***************************************************************************)
(* Step 3: add_gateway for the entries of gateways after the first         *)
(***************************************************************************)
\* `for (i, gateway) in gateways.iter().skip(1).enumerate()` calls
\* add_gateway(adapter, gateway, i + 1): the entry at index k (from 1) of
\* the model has the enumerate index k - 2
\* the metric without the + 1
gateway_metric_from_zero(k) == k - 2

gateway_metric(k) == (k - 2) + 1

add_gateway ==
    /\ pc = "add_gateway"
    /\ ~InFlight
    /\ LET gateway == profile.gateways[i]
           metric == gateway_metric(i)
       IN /\ calls' = Call("add_gateway", <<adapter, gateway, metric>>)
          /\ IF os = "windows"
             THEN Issue("add_gateway", "netsh",
                        netsh_add_route(adapter, gateway, metric))
             ELSE Issue("add_gateway", "ip",
                        ip_route_add_metric(adapter, gateway, metric))
    /\ UNCHANGED <<os, adapter, profile, pc, i, normalized_subnet, result,
                   stdout>>
    /\ UNCHANGED <<first_call, fn_vars, ui_vars>>

add_gateway_returns ==
    /\ pc = "add_gateway"
    /\ InFlight
    /\ \E outcome \in OutcomesNow :
         LET r == add_gateway_match(outcome, Len(cmds))
         IN /\ Complete(outcome)
            /\ StepReturns("add_gateway", i, calls, r, <<>>)
    /\ UNCHANGED <<os, adapter, profile, normalized_subnet>>
    /\ UNCHANGED <<first_call, fn_vars, ui_vars>>

(***************************************************************************)
(* Step 4: set_dns, and the end of load_profile                            *)
(***************************************************************************)
set_dns ==
    /\ pc = "set_dns"
    /\ ~InFlight
    /\ LET cs == Call("set_dns", <<adapter, profile.dns>>)
           c == set_dns_command(os, adapter, profile.dns)
       IN IF c = None
          THEN /\ StepReturns("set_dns", 0, cs, Ok(Unit), <<>>)
               /\ UNCHANGED cmds
          ELSE IF c = Panic
          THEN /\ pc' = "panicked"
               /\ calls' = cs
               /\ UNCHANGED <<cmds, i, result, stdout>>
          ELSE /\ calls' = cs
               /\ Issue("set_dns", c[2][1], c[2][2])
               /\ UNCHANGED <<pc, i, result, stdout>>
    /\ UNCHANGED <<os, adapter, profile, normalized_subnet>>
    /\ UNCHANGED <<first_call, fn_vars, ui_vars>>

\* set_dns returning with the DNS setting taken out of the profile
set_dns_returns_takes_dns ==
    /\ pc = "set_dns"
    /\ InFlight
    /\ \E outcome \in OutcomesNow :
         LET r == set_dns_match(outcome, Len(cmds))
         IN /\ Complete(outcome)
            /\ StepReturns("set_dns", 0, calls, r, <<>>)
    /\ profile' = [profile EXCEPT !.dns = DNS_None]
    /\ UNCHANGED <<os, adapter, normalized_subnet>>
    /\ UNCHANGED <<first_call, fn_vars, ui_vars>>

set_dns_returns ==
    /\ pc = "set_dns"
    /\ InFlight
    /\ \E outcome \in OutcomesNow :
         LET r == set_dns_match(outcome, Len(cmds))
         IN /\ Complete(outcome)
            /\ StepReturns("set_dns", 0, calls, r, <<>>)
    /\ UNCHANGED <<os, adapter, profile, normalized_subnet>>
    /\ UNCHANGED <<first_call, fn_vars, ui_vars>>

Next ==
    \/ load_profile_set_ip_addr
    \/ load_profile_no_ips
    \/ set_ip_addr_netsh_returns
    \/ set_ip_addr_flush_returns
    \/ set_ip_addr_add
    \/ set_ip_addr_add_returns
    \/ set_ip_addr_route
    \/ set_ip_addr_route_returns
    \/ add_ip_addr
    \/ add_ip_addr_returns
    \/ add_gateway
    \/ add_gateway_returns
    \/ set_dns
    \/ set_dns_returns

Spec == Init /\ [][Next]_vars

\* load_profile runs on one thread and waits for nothing but the return of
\* the command it started (Command::output blocks until the process ends):
\* as long as a step is possible, one is taken
SpecFair == Init /\ [][Next]_vars /\ WF_vars(Next)

(***************************************************************************)
(* load_profile called a second time                                       *)
(***************************************************************************)
MaxIpsTwice == 2

MaxGatewaysTwice == 2

InitTwice ==
    /\ Init
    /\ Len(profile.ips) <= MaxIpsTwice
    /\ Len(profile.gateways) <= MaxGatewaysTwice

\* the Apply button is clicked again: load_profile(&self.profile,
\* &interface.name) runs from its first line with the same two arguments;
\* cmds, calls and result now record the second call
load_profile_again ==
    /\ pc = "done"
    /\ ~first_call.made
    /\ first_call' = [made |-> TRUE, cmds |-> cmds, calls |-> calls,
                      result |-> result]
    /\ pc' = "load_profile"
    /\ i' = 0
    /\ normalized_subnet' = ""
    /\ cmds' = <<>>
    /\ calls' = <<>>
    /\ result' = Pending
    /\ UNCHANGED <<os, adapter, profile, stdout, fn_vars, ui_vars>>

NextTwice == Next \/ load_profile_again

SpecTwice == InitTwice /\ [][NextTwice]_vars

(***************************************************************************)
(* load_profile called on two profiles that differ in mac only             *)
(***************************************************************************)
\* Option<MAC>: no override, or MAC { address }
MACs == {None, Some([address |-> "00:1A:2B:3C:4D:5E"])}

\* Init with the lists of InitTwice and any of the two mac values
InitMac ==
    /\ os \in {"windows", "linux"}
    /\ adapter \in Adapters
    /\ \E p \in NetworkProfiles, m \in MACs :
          /\ Len(p.ips) <= MaxIpsTwice
          /\ Len(p.gateways) <= MaxGatewaysTwice
          /\ profile = [p EXCEPT !.mac = m]
    /\ pc = "load_profile"
    /\ i = 0
    /\ normalized_subnet = ""
    /\ cmds = <<>>
    /\ calls = <<>>
    /\ result = Pending
    /\ stdout = <<>>
    /\ first_call = NoCall
    /\ arg_dns = DNS_None
    /\ arg_subnet = ""
    /\ arg_ip_address = ""
    /\ arg_vec = <<>>
    /\ arg_indices = <<>>
    /\ arg_file = None
    /\ called = "none"
    /\ returned = Unit
    /\ NetProfiler_default

\* load_profile is called again, on the same adapter, with a profile that
\* is the first one but for its mac; cmds, calls and result now record the
\* second call
load_profile_other_mac ==
    /\ pc = "done"
    /\ ~first_call.made
    /\ first_call' = [made |-> TRUE, cmds |-> cmds, calls |-> calls,
                      result |-> result]
    /\ \E m \in MACs \ {profile.mac} : profile' = [profile EXCEPT !.mac = m]
    /\ pc' = "load_profile"
    /\ i' = 0
    /\ normalized_subnet' = ""
    /\ cmds' = <<>>
    /\ calls' = <<>>
    /\ result' = Pending
    /\ UNCHANGED <<os, adapter, stdout, fn_vars, ui_vars>>

NextMac == Next \/ load_profile_other_mac

SpecMac == InitMac /\ [][NextMac]_vars

(***************************************************************************)
(* The public functions of the library called directly: DNS::addresses,    *)
(* DNS::primary, DNS::secondary, cidr_to_dotted_decimal,                   *)
(* dotted_decimal_to_cidr and normalize_subnet_for_os, each on one         *)
(* argument                                                                *)
(***************************************************************************)
\* the prefix lengths written "/0", "/1", ..: beyond 32 they are not masks
MaxPrefix == 40

\* the octet j (from 1) of the mask with n leading one-bits: its 8 bits of
\* which the first min(max(n - 8 (j - 1), 0), 8) are ones
MaskOctet(n, j) ==
    LET ones == IF n - 8 * (j - 1) < 0 THEN 0
                ELSE IF n - 8 * (j - 1) > 8 THEN 8 ELSE n - 8 * (j - 1)
    IN 256 - 2 ^ (8 - ones)

\* the mask with n leading one-bits in dotted-decimal notation
ContiguousMask(n) ==
    ToString(MaskOctet(n, 1)) \o "." \o ToString(MaskOctet(n, 2)) \o "."
        \o ToString(MaskOctet(n, 3)) \o "." \o ToString(MaskOctet(n, 4))

\* "/N"
Cidr(n) == "/" \o ToString(n)

\* a '/' followed by something that is not a number
NonNumericSuffixes ==
    {"/", "/abc", "/2a", "/-1", "/ 24", "/24 ", "//24", "/2.4", "/255.0.0.0"}

\* a '/' followed by a number too large for a prefix length, or for a u8
TooLargePrefixes == {Cidr(n) : n \in 33..MaxPrefix} \cup {"/256", "/999"}

\* addresses that are not a run of ones followed by a run of zeros
NonContiguousMasks ==
    {"255.255.0.255", "255.0.255.0", "0.0.0.1", "255.255.255.253",
     "128.0.0.1", "0.255.255.255", "192.168.1.1"}

\* strings without a leading '/' that are not an IPv4 literal
NotIpv4Literals ==
    {"", "24", "bogus", "a.b.c.d", "255.255.255", "255.255.255.0.0",
     "256.0.0.0", "255.255.255.0 ", "255.255.255.", "255.255.255.0/24"}

\* 24 written with a sign and with a leading zero
SignedOrPaddedPrefixes == {"/+24", "/024"}

\* the subnet strings a caller passes
Subnets ==
    {Cidr(n) : n \in 0..32} \cup {ContiguousMask(n) : n \in 0..32}
        \cup NonNumericSuffixes \cup TooLargePrefixes
        \cup SignedOrPaddedPrefixes
        \cup NonContiguousMasks \cup NotIpv4Literals

\* four octets in 0..255, each written without a leading zero
PlainAddresses ==
    {"192.168.1.1", "0.0.0.0", "255.255.255.255", "10.0.0.5", "1.2.3.4",
     "255.255.0.255", "127.0.0.1", "8.8.4.4"}

\* four octets in 0..255, one of them written with a leading zero
LeadingZeroAddresses ==
    {"192.168.1.01", "010.0.0.1", "0.0.0.00", "1.2.3.0004"}

\* four numbers, one of them above 255
OutOfRangeAddresses ==
    {"192.168.1.256", "256.0.0.0", "1.2.3.999", "1.2.3.1000"}

\* fewer or more than four octets
NotFourOctets ==
    {"", "1", "1.2.3", "1.2.3.4.5", "1.2.3.", ".1.2.3", "1..2.3"}

\* four pieces with a character that is no digit
OtherCharacters ==
    {"not.an.ip", "1.2.3.4 ", " 1.2.3.4", "1.2.3.a", "1.2.3.4/24",
     "+1.2.3.4", "1.2.3.-4", "1.2.3.+4", "1,2,3,4", "0x1.2.3.4"}

\* the address strings a caller passes
Addresses ==
    PlainAddresses \cup LeadingZeroAddresses \cup OutOfRangeAddresses
        \cup NotFourOctets \cup OtherCharacters

\* the DNS values a caller has: every variant, Custom with any two strings
FnDNSs ==
    DNSs \cup { DNS_Custom("not an address", "8.8.8.8"),
                DNS_Custom("", ""),
                DNS_Custom("9.9.9.9", "9.9.9.9"),
                DNS_Custom("8.8.4.4", "8.8.8.8") }

FnInit ==
    /\ os \in {"windows", "linux"}
    /\ arg_dns \in FnDNSs
    /\ arg_subnet \in Subnets
    /\ arg_ip_address \in Addresses
    /\ arg_vec = <<>>
    /\ arg_indices = <<>>
    /\ arg_file = None
    /\ called = "none"
    /\ returned = Unit
    /\ adapter \in Adapters
    /\ profile = [name |-> "office", ips |-> <<>>, gateways |-> <<>>,
                  dns |-> arg_dns, mac |-> None]
    /\ pc = "idle"
    /\ i = 0
    /\ normalized_subnet = ""
    /\ cmds = <<>>
    /\ calls = <<>>
    /\ result = Pending
    /\ stdout = <<>>
    /\ first_call = NoCall
    /\ NetProfiler_default

\* the function fn is called and returns r
Returns(fn, r) ==
    /\ called' = fn
    /\ returned' = r
    /\ UNCHANGED <<os, adapter, profile, pc, i, normalized_subnet, cmds, calls,
                   result, stdout, first_call, arg_dns, arg_subnet,
                   arg_ip_address, arg_vec, arg_indices, arg_file, ui_vars>>

call_addresses ==
    /\ called = "none"
    /\ Returns("addresses", addresses(arg_dns))

\* primary() and secondary() beside addresses() of the same value
call_primary_secondary ==
    /\ called = "none"
    /\ Returns("primary, secondary",
               [primary |-> primary(arg_dns),
                secondary |-> secondary(arg_dns),
                addresses |-> addresses(arg_dns)])

call_cidr_to_dotted_decimal ==
    /\ called = "none"
    /\ Returns("cidr_to_dotted_decimal", cidr_to_dotted_decimal(arg_subnet))

call_dotted_decimal_to_cidr ==
    /\ called = "none"
    /\ Returns("dotted_decimal_to_cidr", dotted_decimal_to_cidr(arg_subnet))

call_normalize_subnet_for_os ==
    /\ called = "none"
    /\ Returns("normalize_subnet_for_os",
               normalize_subnet_for_os(os, arg_subnet))

\* dotted_decimal_to_cidr(&cidr_to_dotted_decimal(subnet)?)
call_cidr_to_dotted_then_dotted_to_cidr ==
    /\ called = "none"
    /\ LET dotted == cidr_to_dotted_decimal(arg_subnet)
       IN Returns("dotted_decimal_to_cidr(cidr_to_dotted_decimal)",
                  IF IsErr(dotted) THEN dotted
                  ELSE dotted_decimal_to_cidr(dotted[2]))

\* cidr_to_dotted_decimal(&dotted_decimal_to_cidr(subnet)?)
call_dotted_to_cidr_then_cidr_to_dotted ==
    /\ called = "none"
    /\ LET cidr == dotted_decimal_to_cidr(arg_subnet)
       IN Returns("cidr_to_dotted_decimal(dotted_decimal_to_cidr)",
                  IF IsErr(cidr) THEN cidr
                  ELSE cidr_to_dotted_decimal(cidr[2]))

call_check_valid_subnet ==
    /\ called = "none"
    /\ Returns("check_valid_subnet", check_valid_subnet(arg_subnet))

call_check_valid_ipv4 ==
    /\ called = "none"
    /\ Returns("check_valid_ipv4", check_valid_ipv4(arg_ip_address))

\* check_valid_subnet beside dotted_decimal_to_cidr of the same string
call_check_valid_subnet_dotted_decimal_to_cidr ==
    /\ called = "none"
    /\ Returns("check_valid_subnet, dotted_decimal_to_cidr",
               <<check_valid_subnet(arg_subnet),
                 dotted_decimal_to_cidr(arg_subnet)>>)

FnNext ==
    \/ call_addresses
    \/ call_primary_secondary
    \/ call_cidr_to_dotted_decimal
    \/ call_dotted_decimal_to_cidr
    \/ call_normalize_subnet_for_os
    \/ call_cidr_to_dotted_then_dotted_to_cidr
    \/ call_dotted_to_cidr_then_cidr_to_dotted
    \/ call_check_valid_subnet
    \/ call_check_valid_ipv4
    \/ call_check_valid_subnet_dotted_decimal_to_cidr

FnSpec == FnInit /\ [][FnNext]_vars

(***************************************************************************)
(* remove_items_by_indices called directly: a vector of up to MaxVec items *)
(* and a list of up to MaxIndices indices, in any order, repeated or not,  *)
(* inside the vector or one past what a vector can hold                    *)
(***************************************************************************)
MaxVec == 3

MaxIndices == 3

Items == {"a", "b", "c"}

RemoveInit ==
    /\ os \in {"windows", "linux"}
    /\ arg_dns = DNS_None
    /\ arg_subnet = ""
    /\ arg_ip_address = ""
    /\ arg_vec \in SeqsUpTo(Items, MaxVec)
    /\ arg_indices \in SeqsUpTo(0..MaxVec, MaxIndices)
    /\ arg_file = None
    /\ called = "none"
    /\ returned = Unit
    /\ adapter \in Adapters
    /\ profile = [name |-> "office", ips |-> <<>>, gateways |-> <<>>,
                  dns |-> DNS_None, mac |-> None]
    /\ pc = "idle"
    /\ i = 0
    /\ normalized_subnet = ""
    /\ cmds = <<>>
    /\ calls = <<>>
    /\ result = Pending
    /\ stdout = <<>>
    /\ first_call = NoCall
    /\ NetProfiler_default

call_remove_items_by_indices ==
    /\ called = "none"
    /\ Returns("remove_items_by_indices",
               remove_items_by_indices(arg_vec, arg_indices))

RemoveNext == call_remove_items_by_indices

RemoveSpec == RemoveInit /\ [][RemoveNext]_vars

(***************************************************************************)
(* Vocabulary of the properties                                            *)
(***************************************************************************)
IsPrefix(s, t) == Len(s) <= Len(t) /\ \A k \in 1..Len(s) : s[k] = t[k]

\* the positions in cmds of the commands of one step
CmdsOf(op) == { k \in 1..Len(cmds) : cmds[k].op = op }

\* the positions in calls of the calls of one function
CallsOf(fn) == { k \in 1..Len(calls) : calls[k].fn = fn }

Phase(op) ==
    CASE op = "set_ip_addr" -> 1
      [] op = "add_ip_addr" -> 2
      [] op = "add_gateway" -> 3
      [] op = "set_dns" -> 4

\* the calls load_profile makes, in order, when no step fails: the primary
\* operation for ips[0] with gateways[0], the additive operation for each
\* later entry of ips, add_gateway for each later entry of gateways with its
\* index as the metric, set_dns
ExpectedCalls(p, a) ==
    (IF p.ips = <<>> THEN <<>>
     ELSE <<<<"set_ip_addr",
              <<a, p.ips[1].address, p.ips[1].subnet,
                IF Len(p.gateways) = 0 THEN None ELSE Some(p.gateways[1])>>>>>>
            \o [k \in 1..(Len(p.ips) - 1) |->
                  <<"add_ip_addr",
                    <<a, p.ips[k + 1].address, p.ips[k + 1].subnet>>>>])
    \o [k \in 1..(Len(p.gateways) - 1) |->
          <<"add_gateway", <<a, p.gateways[k + 1], k>>>>]
    \o <<<<"set_dns", <<a, p.dns>>>>>>

\* calls without the return values
CallsMade == [k \in 1..Len(calls) |-> <<calls[k].fn, calls[k].args>>]

Done == pc = "done"

(***************************************************************************)
(* C1  In every run of load_profile the commands are issued in the order   *)
(* primary address operation for ips[0] (at most once and first), then the *)
(* additive operation for ips[1], ips[2], ... in list order, then          *)
(* add_gateway for gateways[1], gateways[2], ... in list order, then       *)
(* set_dns last; no command of a later step precedes a command of an       *)
(* earlier step, and a command is issued only after the previous one has   *)
(* returned.                                                               *)
(***************************************************************************)
C1_StepOrder ==
    /\ \A a, b \in 1..Len(cmds) :
         a < b => Phase(cmds[a].op) <= Phase(cmds[b].op)
    /\ \A k \in 1..(Len(cmds) - 1) : cmds[k].out # "pending"
    /\ IsPrefix(CallsMade, ExpectedCalls(profile, adapter))
    /\ Cardinality(CallsOf("set_ip_addr")) <= 1
    /\ Cardinality(CmdsOf("set_dns")) <= 1
    /\ \A k \in CmdsOf("set_dns") : k = Len(cmds)
    /\ \A k \in 1..Len(calls) : calls[k].ret = Pending => k = Len(calls)

\* a run that went through every step: two additive addresses, two
\* additional gateways and the DNS command
C1_Witness ==
    /\ Done
    /\ IsOk(result)
    /\ Cardinality(CmdsOf("add_ip_addr")) = 2
    /\ Cardinality(CmdsOf("add_gateway")) = 2
    /\ Cardinality(CmdsOf("set_dns")) = 1

(***************************************************************************)
(* C2  Fail-fast: as soon as a step (set_ip_addr, an add_ip_addr, an       *)
(* add_gateway, set_dns) returns an error, load_profile issues no further  *)
(* command and returns an error: after a failed primary operation no       *)
(* add_ip_addr, add_gateway or set_dns command is issued, after a failed   *)
(* add_gateway no set_dns command is issued.                               *)
(***************************************************************************)
SomeStepFailed == \E k \in 1..Len(calls) : IsErr(calls[k].ret)

C2_Failed ==
    \A k \in 1..Len(calls) :
        IsErr(calls[k].ret) =>
            /\ k = Len(calls)
            /\ Done
            /\ result = calls[k].ret
            /\ ~InFlight
            /\ calls[k].fn = "set_ip_addr" =>
                 CmdsOf("add_ip_addr") \cup CmdsOf("add_gateway")
                     \cup CmdsOf("set_dns") = {}
            /\ calls[k].fn = "add_gateway" => CmdsOf("set_dns") = {}

C2_FailFast ==
    /\ [](C2_Failed)
    /\ [][SomeStepFailed => (cmds' = cmds /\ calls' = calls /\ result' = result)]_vars

\* an add_gateway that failed after the addresses were applied
C2_Witness ==
    \E k \in 1..Len(calls) :
        /\ calls[k].fn = "add_gateway"
        /\ IsErr(calls[k].ret)
        /\ CmdsOf("add_ip_addr") # {}

(***************************************************************************)
(* C3  For ips = [A, B, C] where the additive command for B exits with     *)
(* failure: the primary command for A was issued, the additive command for *)
(* B was issued, no command for C is issued, and load_profile returns      *)
(* exactly the stderr text captured from B's command.                      *)
(***************************************************************************)
\* the subnet of ips[k] as the platform's command takes it
normalized_subnet_of(k) == normalize_subnet_for_os(os, profile.ips[k].subnet)[2]

\* the additive command for B is the first add_ip_addr command
BFailedAt(k) ==
    /\ Len(profile.ips) = 3
    /\ k \in CmdsOf("add_ip_addr")
    /\ \A j \in CmdsOf("add_ip_addr") : k <= j
    /\ cmds[k].out = "failure"

C3_SecondAddressFails ==
    \A k \in 1..Len(cmds) :
        BFailedAt(k) =>
            /\ \E j \in 1..(k - 1) :
                 /\ cmds[j].op = "set_ip_addr"
                 /\ \E a \in 1..Len(cmds[j].args) :
                      cmds[j].args[a] \in
                          { profile.ips[1].address,
                            profile.ips[1].address \o normalized_subnet_of(1) }
            /\ CmdsOf("add_ip_addr") = {k}
            /\ k = Len(cmds)
            /\ Cardinality(CallsOf("add_ip_addr")) = 1
            /\ calls[Len(calls)].args[2] = profile.ips[2].address
            /\ result = Err(Stderr(k))

C3_Witness == \E k \in 1..Len(cmds) : BFailedAt(k)

(***************************************************************************)
(* C4  If the command of the DNS step fails in any way (it could not be    *)
(* spawned, or it ran and exited with a failure status), set_dns returns   *)
(* an error, load_profile returns that error and does not declare success. *)
(***************************************************************************)
SuccessDeclared ==
    \E k \in 1..Len(stdout) : stdout[k] = SuccessMessage(profile, adapter)

C4_DnsFailureIsAnError ==
    \A k \in CmdsOf("set_dns") :
        cmds[k].out \in {"failure", "spawn_error"} =>
            /\ IsErr(calls[Len(calls)].ret)
            /\ result = calls[Len(calls)].ret
            /\ ~SuccessDeclared

(***************************************************************************)
(* C5  On Linux the primary address operation is flush-then-add: if the    *)
(* flush fails (spawn failure or non-zero exit), set_ip_addr returns an    *)
(* error and the address-add command is never issued; set_ip_addr succeeds *)
(* only if both the flush and the add succeeded.                           *)
(***************************************************************************)
IsFlush(c) == c.op = "set_ip_addr" /\ c.args = ip_addr_flush(adapter)

IsPrimaryAdd(c) ==
    /\ c.op = "set_ip_addr"
    /\ Len(c.args) >= 2
    /\ c.args[1] = "addr"
    /\ c.args[2] = "add"

C5_FlushThenAdd ==
    os = "linux" =>
        /\ \A k \in 1..Len(cmds) :
             (IsFlush(cmds[k]) /\ cmds[k].out \in {"failure", "spawn_error"}) =>
                 /\ ~IsOk(calls[1].ret)
                 /\ \A j \in 1..Len(cmds) : ~IsPrimaryAdd(cmds[j])
        /\ \A c \in CallsOf("set_ip_addr") :
             IsOk(calls[c].ret) =>
                 /\ \E k \in 1..Len(cmds) :
                      IsFlush(cmds[k]) /\ cmds[k].out = "success"
                 /\ \E k \in 1..Len(cmds) :
                      IsPrimaryAdd(cmds[k]) /\ cmds[k].out = "success"

(***************************************************************************)
(* C6  load_profile returns Ok, and prints the "Successfully loaded        *)
(* profile" message, if and only if every step it executed returned Ok:    *)
(* the primary address operation (when ips is non-empty), every additive   *)
(* address operation, every add_gateway operation and the DNS operation.   *)
(***************************************************************************)
C6_OkIffEveryStepOk ==
    /\ result # Pending => Done
    /\ ~Done => ~SuccessDeclared
    /\ Done =>
         /\ IsOk(result) \/ IsErr(result)
         /\ IsOk(result) <=> \A k \in 1..Len(calls) : IsOk(calls[k].ret)
         /\ IsOk(result) <=> SuccessDeclared
         /\ IsOk(result) => CallsMade = ExpectedCalls(profile, adapter)

\* a successful run of four steps or more
C6_Witness ==
    /\ Done
    /\ IsOk(result)
    /\ SuccessDeclared
    /\ Len(calls) >= 4
    /\ \A k \in 1..Len(calls) : IsOk(calls[k].ret)

(***************************************************************************)
(* C7  No rollback: when load_profile fails, the commands it has issued    *)
(* are exactly the prefix of the all-success command sequence up to and    *)
(* including the failing command; nothing is issued to undo the steps      *)
(* already applied.                                                        *)
(***************************************************************************)
\* the commands of the steps from ips[k] on, while the subnets normalize;
\* ok tells whether they all did
RECURSIVE AdditiveCmds(_, _, _, _)
AdditiveCmds(target_os, a, p, k) ==
    IF k > Len(p.ips) THEN [ok |-> TRUE, cmds |-> <<>>]
    ELSE LET n == normalize_subnet_for_os(target_os, p.ips[k].subnet)
             rest == AdditiveCmds(target_os, a, p, k + 1)
         IN IF IsErr(n) THEN [ok |-> FALSE, cmds |-> <<>>]
            ELSE [ok |-> rest.ok,
                  cmds |->
                    <<IF target_os = "windows"
                      THEN <<"netsh",
                             netsh_add_address(a, p.ips[k].address, n[2])>>
                      ELSE <<"ip", ip_addr_add(a, p.ips[k].address, n[2])>>>>
                      \o rest.cmds]

PrimaryCmds(target_os, a, p) ==
    IF p.ips = <<>> THEN [ok |-> TRUE, cmds |-> <<>>]
    ELSE LET n == normalize_subnet_for_os(target_os, p.ips[1].subnet)
         IN IF IsErr(n) THEN [ok |-> FALSE, cmds |-> <<>>]
            ELSE [ok |-> TRUE,
                  cmds |->
                    IF target_os = "windows"
                    THEN <<<<"netsh",
                             netsh_set_address(
                                 a, p.ips[1].address, n[2],
                                 IF p.gateways = <<>> THEN "none"
                                 ELSE p.gateways[1])>>>>
                    ELSE <<<<"ip", ip_addr_flush(a)>>,
                           <<"ip", ip_addr_add(a, p.ips[1].address, n[2])>>>>
                           \o (IF p.gateways = <<>> THEN <<>>
                               ELSE <<<<"ip",
                                        ip_route_add_default(
                                            a, p.gateways[1])>>>>)]

GatewayCmds(target_os, a, p) ==
    [k \in 1..(Len(p.gateways) - 1) |->
        IF target_os = "windows"
        THEN <<"netsh", netsh_add_route(a, p.gateways[k + 1], k)>>
        ELSE <<"ip", ip_route_add_metric(a, p.gateways[k + 1], k)>>]

\* the commands of a run in which every command succeeds
AllSuccessCmds(target_os, a, p) ==
    LET first == PrimaryCmds(target_os, a, p)
        more == IF p.ips = <<>> THEN [ok |-> TRUE, cmds |-> <<>>]
                ELSE AdditiveCmds(target_os, a, p, 2)
    IN first.cmds
         \o (IF ~first.ok THEN <<>>
             ELSE more.cmds
                    \o (IF ~more.ok THEN <<>>
                        ELSE GatewayCmds(target_os, a, p)
                               \o <<set_dns_command(target_os, a, p.dns)[2]>>))

CmdsIssued == [k \in 1..Len(cmds) |-> <<cmds[k].program, cmds[k].args>>]

\* the error came out of the last command issued
FailedByLastCommand ==
    /\ cmds # <<>>
    /\ \/ cmds[Len(cmds)].out = "failure" /\ result = Err(Stderr(Len(cmds)))
       \/ cmds[Len(cmds)].out = "spawn_error"
            /\ result = Err(IoError(Len(cmds)))

\* the error came out of the normalization of a subnet, before any command
\* of that step
FailedByNormalization ==
    \E k \in 1..Len(profile.ips) :
        result = normalize_subnet_for_os(os, profile.ips[k].subnet)

C7_NoRollback ==
    /\ IsPrefix(CmdsIssued, AllSuccessCmds(os, adapter, profile))
    /\ (Done /\ IsErr(result)) =>
          \/ FailedByLastCommand
          \/ /\ FailedByNormalization
             /\ CmdsIssued = AllSuccessCmds(os, adapter, profile)

\* a failure at the fourth command or later
C7_Witness ==
    /\ Done
    /\ IsErr(result)
    /\ FailedByLastCommand
    /\ Len(cmds) >= 4

(***************************************************************************)
(* C8  When every command succeeds, load_profile on a profile with n >= 1  *)
(* ips and g gateways performs exactly one primary address operation,      *)
(* n - 1 additive address operations, max(g - 1, 0) add_gateway operations *)
(* and one DNS operation; for ips = [(10.0.0.5, /24)], no gateways and     *)
(* DNS::None that is one primary operation, no additive one, no gateway    *)
(* one, one restore-automatic-DNS command, and Ok.                         *)
(***************************************************************************)
EveryCommandSucceeded == \A k \in 1..Len(cmds) : cmds[k].out = "success"

EverySubnetNormalizes ==
    \A k \in 1..Len(profile.ips) :
        IsOk(normalize_subnet_for_os(os, profile.ips[k].subnet))

Max(a, b) == IF a >= b THEN a ELSE b

IsRestoreAutomaticDns(c) ==
    \/ c.program = "powershell" /\ c.args = powershell_dns_dhcp(adapter)
    \/ c.program = "nmcli" /\ c.args = nmcli_dns_auto(adapter)

OperationCounts ==
    /\ Cardinality(CallsOf("set_ip_addr")) = 1
    /\ Cardinality(CallsOf("add_ip_addr")) = Len(profile.ips) - 1
    /\ Cardinality(CallsOf("add_gateway")) = Max(Len(profile.gateways) - 1, 0)
    /\ Cardinality(CallsOf("set_dns")) = 1
    /\ Cardinality(CmdsOf("set_dns")) = 1

TheScenarioOfC8 ==
    /\ profile.ips = <<[address |-> "10.0.0.5", subnet |-> "/24"]>>
    /\ profile.gateways = <<>>
    /\ profile.dns = DNS_None

ScenarioCounts ==
    /\ IsOk(result)
    /\ Cardinality(CallsOf("set_ip_addr")) = 1
    /\ CmdsOf("add_ip_addr") = {}
    /\ CmdsOf("add_gateway") = {}
    /\ \E k \in 1..Len(cmds) :
         /\ CmdsOf("set_dns") = {k}
         /\ IsRestoreAutomaticDns(cmds[k])

\* the claim as stated: the precondition is only that the commands succeed
C8_CountsWhenCommandsSucceed ==
    (Done /\ EveryCommandSucceeded /\ Len(profile.ips) >= 1) =>
        /\ OperationCounts
        /\ TheScenarioOfC8 => ScenarioCounts

\* the claim as amended: no step fails, neither by its command nor by the
\* normalization of its subnet
C8_CountsWhenStepsSucceed ==
    (Done /\ EveryCommandSucceeded /\ EverySubnetNormalizes
       /\ Len(profile.ips) >= 1) =>
        /\ IsOk(result)
        /\ OperationCounts
        /\ TheScenarioOfC8 => ScenarioCounts

\* a run of three addresses and three gateways in which nothing failed
C8_Witness ==
    /\ Done
    /\ EveryCommandSucceeded
    /\ EverySubnetNormalizes
    /\ Len(profile.ips) = 3
    /\ Len(profile.gateways) = 3
    /\ Cardinality(CallsOf("add_ip_addr")) = 2
    /\ Cardinality(CallsOf("add_gateway")) = 2

(***************************************************************************)
(* C9  Gateway handling: the primary address operation receives            *)
(* gateways[0] (no gateway when gateways is empty), and for every index    *)
(* i >= 1 exactly one add_gateway(adapter, gateways[i], i) call is made,   *)
(* in increasing index order; for gateways = [g1, g2, g3] that is the      *)
(* primary operation with g1, then add_gateway(g2, 1), add_gateway(g3, 2). *)
(***************************************************************************)
\* the calls of add_gateway so far, in order, as <<gateway, metric>>
RECURSIVE GatewayCallsFrom(_)
GatewayCallsFrom(k) ==
    IF k > Len(calls) THEN <<>>
    ELSE (IF calls[k].fn = "add_gateway"
          THEN <<<<calls[k].args[2], calls[k].args[3]>>>> ELSE <<>>)
           \o GatewayCallsFrom(k + 1)

\* gateways[i] with metric i, for the indices i >= 1 (from 0) of gateways
GatewaysWithMetrics(p) ==
    [m \in 1..(Len(p.gateways) - 1) |-> <<p.gateways[m + 1], m>>]

\* load_profile has reached the DNS step
ReachedDns == CallsOf("set_dns") # {}

C9_Gateways ==
    /\ \A k \in CallsOf("set_ip_addr") :
         calls[k].args[4] = IF Len(profile.gateways) = 0 THEN None
                            ELSE Some(profile.gateways[1])
    /\ \A k \in CmdsOf("set_ip_addr") :
         (cmds[k].program = "netsh" =>
             cmds[k].args[9] = IF Len(profile.gateways) = 0 THEN "none"
                               ELSE profile.gateways[1])
         /\ ((cmds[k].program = "ip" /\ cmds[k].args[1] = "route") =>
                (profile.gateways # <<>> /\ cmds[k].args[5] = profile.gateways[1]))
    /\ IsPrefix(GatewayCallsFrom(1), GatewaysWithMetrics(profile))
    /\ ReachedDns => GatewayCallsFrom(1) = GatewaysWithMetrics(profile)
    /\ \A k \in CmdsOf("add_gateway") :
         \E m \in 1..(Len(profile.gateways) - 1) :
            /\ Cardinality({j \in CmdsOf("add_gateway") : j <= k}) = m
            /\ profile.gateways[m + 1] \in {cmds[k].args[5], cmds[k].args[6]}
            /\ cmds[k].args[Len(cmds[k].args)] = ToString(m)

\* gateways = [g1, g2, g3] with g2 # g3: the primary operation had g1, then
\* add_gateway(g2, 1) and add_gateway(g3, 2) were called
C9_Witness ==
    /\ Len(profile.gateways) = 3
    /\ profile.gateways[2] # profile.gateways[3]
    /\ \E k \in CallsOf("set_ip_addr") :
         calls[k].args[4] = Some(profile.gateways[1])
    /\ GatewayCallsFrom(1) =
         <<<<profile.gateways[2], 1>>, <<profile.gateways[3], 2>>>>
    /\ ReachedDns

(***************************************************************************)
(* C10  The DNS step issues the restore-automatic-DNS command exactly when *)
(* profile.dns is DNS::None; for every other variant it issues the         *)
(* static-DNS command carrying exactly the pair addresses(dns), primary    *)
(* first and secondary second.                                             *)
(***************************************************************************)
IsStaticDns(c, p, s) ==
    \/ c.program = "powershell" /\ c.args = powershell_dns_static(adapter, p, s)
    \/ c.program = "nmcli" /\ c.args = nmcli_dns_static(adapter, p, s)

C10_DnsCommand ==
    /\ ReachedDns => Cardinality(CmdsOf("set_dns")) = 1
    /\ \A k \in CmdsOf("set_dns") :
         /\ cmds[k].program = IF os = "windows" THEN "powershell" ELSE "nmcli"
         /\ IsRestoreAutomaticDns(cmds[k]) <=> profile.dns = DNS_None
         /\ profile.dns # DNS_None =>
              /\ addresses(profile.dns) # None
              /\ IsStaticDns(cmds[k], addresses(profile.dns)[2][1],
                             addresses(profile.dns)[2][2])

\* a static-DNS command for a Custom pair whose two servers differ
C10_Witness ==
    \E k \in CmdsOf("set_dns") :
        /\ profile.dns[1] = "DNS::Custom"
        /\ profile.dns[2] # profile.dns[3]
        /\ IsStaticDns(cmds[k], profile.dns[2], profile.dns[3])

(***************************************************************************)
(* C11  Two calls of load_profile in immediate succession with the same    *)
(* profile and adapter, the external commands having the same outcomes     *)
(* both times, issue the same commands with the same arguments in the same *)
(* order and return the same result: while the second call runs, what it   *)
(* has issued and called is the beginning of what the first call issued    *)
(* and called, and when it has returned the two calls are equal.           *)
(***************************************************************************)
\* the command c of the second call is the command d of the first call
SameCommand(c, d) ==
    /\ c.op = d.op
    /\ c.program = d.program
    /\ c.args = d.args
    /\ c.out \in {"pending", d.out}

\* the call c of the second call is the call d of the first call
SameCall(c, d) ==
    /\ c.fn = d.fn
    /\ c.args = d.args
    /\ c.ret \in {Pending, d.ret}

C12_SamePathOnBothPlatforms ==
    LET expected == ExpectedCalls(profile, adapter)
        n == Len(calls)
    IN /\ n <= Len(expected)
       /\ CallsMade = SubSeq(expected, 1, n)
       /\ \A k \in 1..(n - 1) : IsOk(calls[k].ret)
       /\ Done <=> /\ n >= 1
                   /\ \/ IsErr(calls[n].ret)
                      \/ n = Len(expected) /\ IsOk(calls[n].ret)
       /\ Done => (IsOk(result) <=> IsOk(calls[n].ret))

\* on Linux two operations returned Ok and the add_gateway that followed
\* returned Err
C12_Witness ==
    /\ os = "linux"
    /\ Done
    /\ Len(calls) = 3
    /\ calls[3].fn = "add_gateway"
    /\ IsErr(result)

(***************************************************************************)
(* C13  load_profile never mutates the profile it is given: no step of a   *)
(* run, whether the run succeeds or fails at any step, changes name, ips,  *)
(* gateways, dns or mac of the profile (nor the adapter name).             *)
(***************************************************************************)
C13_ProfileNotMutated ==
    [][ /\ profile'.name = profile.name
        /\ profile'.ips = profile.ips
        /\ profile'.gateways = profile.gateways
        /\ profile'.dns = profile.dns
        /\ profile'.mac = profile.mac
        /\ adapter' = adapter ]_vars

\* a run on a profile with addresses, gateways and a DNS setting has
\* returned after every one of its four kinds of step
C13_Witness ==
    /\ Done
    /\ Len(profile.ips) >= 2
    /\ Len(profile.gateways) >= 2
    /\ profile.dns # DNS_None
    /\ Len(calls) = Len(ExpectedCalls(profile, adapter))

(***************************************************************************)
(* C14  The error a failing load_profile returns carries, in addition to   *)
(* the diagnostic text of the step that failed, context that identifies    *)
(* that step and the adapter that was targeted.                            *)
(***************************************************************************)
\* t occurs in s
Contains(s, t) ==
    \E k \in 0..(Len(s) - Len(t)) : SubSeq(s, k + 1, k + Len(t)) = t

\* what load_profile itself says of a failing step (in its eprintln!)
StepContext(fn) ==
    CASE fn = "set_ip_addr" -> "Failed to set primary IP address"
      [] fn = "add_ip_addr" -> "Failed to add IP address"
      [] fn = "add_gateway" -> "Failed to add gateway"
      [] fn = "set_dns" -> "Failed to set DNS"

C14_ErrorCarriesContext ==
    (Done /\ IsErr(result)) =>
        LET failed == calls[Len(calls)]
        IN /\ Contains(result[2], failed.ret[2])
           /\ Contains(result[2], StepContext(failed.fn))
           /\ Contains(result[2], adapter)

(***************************************************************************)
(* C15  addresses(dns) returns None exactly for DNS::None, the pair        *)
(* (9.9.9.9, 149.112.112.112) for Quad9, (8.8.8.8, 8.8.4.4) for Google,    *)
(* (1.1.1.2, 1.0.0.2) for Cloudflare, (208.67.222.222, 208.67.220.220) for *)
(* OpenDNS, and for Custom { primary, secondary } exactly the pair         *)
(* (primary, secondary), whatever the two strings are.                     *)
(***************************************************************************)
C15_Addresses ==
    called = "addresses" =>
        /\ returned = None <=> arg_dns = DNS_None
        /\ arg_dns = <<"DNS::Quad9">>
              => returned = Some(<<"9.9.9.9", "149.112.112.112">>)
        /\ arg_dns = <<"DNS::Google">>
              => returned = Some(<<"8.8.8.8", "8.8.4.4">>)
        /\ arg_dns = <<"DNS::Cloudflare">>
              => returned = Some(<<"1.1.1.2", "1.0.0.2">>)
        /\ arg_dns = <<"DNS::OpenDNS">>
              => returned = Some(<<"208.67.222.222", "208.67.220.220">>)
        /\ arg_dns[1] = "DNS::Custom"
              => returned = Some(<<arg_dns[2], arg_dns[3]>>)

\* addresses() has returned the pair of a Custom value whose primary is no
\* address at all
C15_Witness ==
    /\ called = "addresses"
    /\ arg_dns = <<"DNS::Custom", "not an address", "8.8.8.8">>
    /\ returned = Some(<<"not an address", "8.8.8.8">>)

(***************************************************************************)
(* C16  For every DNS value d, primary(d) and secondary(d) are the first   *)
(* and the second component of addresses(d): the three are None exactly    *)
(* when d is DNS::None, and otherwise addresses(d) is                      *)
(* Some((primary(d), secondary(d))).                                       *)
(***************************************************************************)
C16_Projections ==
    called = "primary, secondary" =>
        /\ returned.addresses = None <=> arg_dns = DNS_None
        /\ returned.primary = None <=> arg_dns = DNS_None
        /\ returned.secondary = None <=> arg_dns = DNS_None
        /\ arg_dns # DNS_None =>
              /\ returned.primary[1] = "Some"
              /\ returned.secondary[1] = "Some"
              /\ returned.addresses =
                    Some(<<returned.primary[2], returned.secondary[2]>>)

\* the three have returned for Cloudflare, whose two addresses differ
C16_Witness ==
    /\ called = "primary, secondary"
    /\ arg_dns = DNS_Cloudflare
    /\ returned.primary = Some("1.1.1.2")
    /\ returned.secondary = Some("1.0.0.2")

(***************************************************************************)
(* C17  cidr_to_dotted_decimal("/N") returns, for every integer N in       *)
(* 0..32, the dotted-decimal rendering of the 32-bit mask with exactly N   *)
(* leading one-bits followed by 32 - N zero-bits, no shift overflowing     *)
(* ("/0" gives 0.0.0.0, "/24" 255.255.255.0, "/32" 255.255.255.255); for   *)
(* N > 32, for a suffix that is not a number and for an argument without   *)
(* the leading '/', it returns an error.                                   *)
(***************************************************************************)
C17_CidrToDotted ==
    called = "cidr_to_dotted_decimal" =>
        /\ \A n \in 0..32 :
              arg_subnet = Cidr(n) => returned = Ok(ContiguousMask(n))
        /\ arg_subnet = "/0" => returned = Ok("0.0.0.0")
        /\ arg_subnet = "/24" => returned = Ok("255.255.255.0")
        /\ arg_subnet = "/32" => returned = Ok("255.255.255.255")
        /\ arg_subnet \in TooLargePrefixes => IsErr(returned)
        /\ arg_subnet \in NonNumericSuffixes => IsErr(returned)
        /\ ~starts_with(arg_subnet, "/") => IsErr(returned)

\* the conversion of "/32", with its shift by zero, has returned
C17_Witness ==
    /\ called = "cidr_to_dotted_decimal"
    /\ arg_subnet = "/32"
    /\ returned = Ok("255.255.255.255")

(***************************************************************************)
(* C18  Subnet normalization on Windows: a subnet beginning with '/' is    *)
(* converted to dotted-decimal by cidr_to_dotted_decimal, which is an      *)
(* error if the prefix is not an integer in 0..32; any other subnet string *)
(* is returned unchanged, without validation.                              *)
(***************************************************************************)
C18_NormalizeOnWindows ==
    (called = "normalize_subnet_for_os" /\ os = "windows") =>
        IF Len(arg_subnet) > 0 /\ SubSeq(arg_subnet, 1, 1) = "/"
        THEN /\ returned = cidr_to_dotted_decimal(arg_subnet)
             /\ \A n \in 0..32 :
                   arg_subnet = Cidr(n) => returned = Ok(ContiguousMask(n))
             /\ arg_subnet \in TooLargePrefixes \cup NonNumericSuffixes
                   => IsErr(returned)
        ELSE returned = Ok(arg_subnet)

\* on Windows a string that is no mask at all has come back unchanged
C18_Witness ==
    /\ called = "normalize_subnet_for_os"
    /\ os = "windows"
    /\ arg_subnet = "255.0.255.0"
    /\ returned = Ok("255.0.255.0")

(***************************************************************************)
(* C19  Subnet normalization on Linux: a dotted-decimal subnet whose       *)
(* 32-bit value has leading_ones + trailing_zeros = 32 is converted to     *)
(* "/N" with N = leading_ones; a dotted-decimal value that is not a        *)
(* contiguous mask (such as 255.255.0.255) and a string that is not an     *)
(* IPv4 literal fail with an invalid-subnet error; a subnet beginning with *)
(* '/' is returned unchanged.                                              *)
(***************************************************************************)
C19_NormalizeOnLinux ==
    (called = "normalize_subnet_for_os" /\ os = "linux") =>
        /\ \A n \in 0..32 :
              arg_subnet = ContiguousMask(n) => returned = Ok(Cidr(n))
        /\ arg_subnet \in NonContiguousMasks
              => returned = Err("Invalid subnet mask: " \o arg_subnet)
        /\ arg_subnet \in NotIpv4Literals
              => returned =
                   Err("Invalid dotted decimal notation: " \o arg_subnet)
        /\ (Len(arg_subnet) > 0 /\ SubSeq(arg_subnet, 1, 1) = "/")
              => returned = Ok(arg_subnet)

\* on Linux the mask with a gap has been refused
C19_Witness ==
    /\ called = "normalize_subnet_for_os"
    /\ os = "linux"
    /\ arg_subnet = "255.255.0.255"
    /\ IsErr(returned)

\* the 33 valid contiguous masks in dotted-decimal notation
ValidMasks == {ContiguousMask(n) : n \in 0..32}

(***************************************************************************)
(* C20  Round trip, as stated: for every dotted-decimal mask m that is a   *)
(* valid contiguous mask, dotted_decimal_to_cidr applied to the result of  *)
(* cidr_to_dotted_decimal(m) gives m.                                      *)
(***************************************************************************)
C20_RoundTripAsStated ==
    (/\ called = "dotted_decimal_to_cidr(cidr_to_dotted_decimal)"
     /\ arg_subnet \in ValidMasks) => returned = Ok(arg_subnet)

(***************************************************************************)
(* C20  Round trip, with the two conversions in the order their types      *)
(* allow: for every dotted-decimal mask m that is a valid contiguous mask, *)
(* cidr_to_dotted_decimal applied to the result of                         *)
(* dotted_decimal_to_cidr(m) gives m.                                      *)
(***************************************************************************)
C20_RoundTrip ==
    (/\ called = "cidr_to_dotted_decimal(dotted_decimal_to_cidr)"
     /\ arg_subnet \in ValidMasks) => returned = Ok(arg_subnet)

\* a mask whose last one-bit is inside an octet has gone to "/20" and back
C20_Witness ==
    /\ called = "cidr_to_dotted_decimal(dotted_decimal_to_cidr)"
    /\ arg_subnet = "255.255.240.0"
    /\ returned = Ok("255.255.240.0")

C22_CheckValidIpv4AsStated ==
    called = "check_valid_ipv4" =>
        (returned = TRUE <=>
            arg_ip_address \in PlainAddresses \cup LeadingZeroAddresses)

(***************************************************************************)
(* C22  check_valid_ipv4(s) is true if and only if s consists of exactly   *)
(* four dot-separated decimal octets, each in the range 0..255 and written *)
(* without a leading zero, with no other characters: 192.168.1.1 is valid, *)
(* 192.168.1.256, not.an.ip and 192.168.1.01 are not.                      *)
(***************************************************************************)
C22_CheckValidIpv4 ==
    called = "check_valid_ipv4" =>
        /\ returned = TRUE <=> arg_ip_address \in PlainAddresses
        /\ arg_ip_address = "192.168.1.1" => returned = TRUE
        /\ arg_ip_address \in {"192.168.1.256", "not.an.ip"}
              => returned = FALSE

\* the validator has refused an address with an octet of 256
C22_Witness ==
    /\ called = "check_valid_ipv4"
    /\ arg_ip_address = "192.168.1.256"
    /\ returned = FALSE

(***************************************************************************)
(* C23  Validation is advisory only: load_profile never consults           *)
(* check_valid_ipv4 or check_valid_subnet and never refuses a profile      *)
(* because a validator returns false.  The address commands issued carry,  *)
(* in order, the address strings of the entries of ips unchanged, whether  *)
(* check_valid_ipv4 accepts them or not, and when a primary or additive    *)
(* operation returns an error, the error is that of the subnet             *)
(* normalization or of one of its commands, never a validation error.      *)
(***************************************************************************)
\* netsh interface ip set / add address, ip addr add
IsAddressCommand(c) ==
    \/ c.program = "netsh" /\ c.args[3] \in {"set", "add"}
                           /\ c.args[4] = "address"
    \/ c.program = "ip" /\ c.args[1] = "addr" /\ c.args[2] = "add"

\* the argument of an address command that holds the address
AddressArgument(c) ==
    CASE c.program = "netsh" /\ c.args[3] = "set" -> c.args[7]
      [] c.program = "netsh" /\ c.args[3] = "add" -> c.args[6]
      [] c.program = "ip" -> c.args[3]

C23_ValidationIsAdvisory ==
    LET issued == SelectSeq(cmds, IsAddressCommand)
    IN /\ Len(issued) <= Len(profile.ips)
       /\ \A m \in 1..Len(issued) :
             AddressArgument(issued[m]) =
                 IF os = "windows" THEN profile.ips[m].address
                 ELSE profile.ips[m].address
                        \o normalize_subnet_for_os(os, profile.ips[m].subnet)[2]
       /\ \A k \in CallsOf("set_ip_addr") \cup CallsOf("add_ip_addr") :
             IsErr(calls[k].ret) =>
                 \/ calls[k].ret =
                        normalize_subnet_for_os(os, calls[k].args[3])
                 \/ \E j \in CmdsOf(calls[k].fn) :
                        calls[k].ret \in {Err(Stderr(j)), Err(IoError(j))}

\* an address and a subnet that both validators refuse have been handed to
\* netsh, and the operation has returned Ok
C23_Witness ==
    /\ ~check_valid_ipv4("not.an.ip")
    /\ ~check_valid_subnet("255.0.255.0")
    /\ \E j \in 1..Len(cmds) :
          /\ IsAddressCommand(cmds[j])
          /\ AddressArgument(cmds[j]) = "not.an.ip"
          /\ cmds[j].out = "success"
    /\ \E k \in 1..Len(calls) :
          /\ calls[k].args[2] = "not.an.ip"
          /\ calls[k].args[3] = "255.0.255.0"
          /\ IsOk(calls[k].ret)

(***************************************************************************)
(* C24  When profile.ips is empty, as stated: load_profile issues no       *)
(* adapter-configuration command.                                          *)
(***************************************************************************)
C24_NoCommandWithoutIps == profile.ips = <<>> => cmds = <<>>

(***************************************************************************)
(* C24  When profile.ips is empty, load_profile issues no address command  *)
(* (it calls neither the primary nor the additive address operation); the  *)
(* gateway step and the DNS step still run: load_profile returns Ok only   *)
(* after it has called set_dns.                                            *)
(***************************************************************************)
C24_NoAddressCommandWithoutIps ==
    profile.ips = <<>> =>
        /\ CallsOf("set_ip_addr") \cup CallsOf("add_ip_addr") = {}
        /\ CmdsOf("set_ip_addr") \cup CmdsOf("add_ip_addr") = {}
        /\ (Done /\ IsOk(result)) => CallsOf("set_dns") # {}

\* a profile without addresses has had its second gateway and its DNS
\* servers configured
C24_Witness ==
    /\ profile.ips = <<>>
    /\ Done
    /\ IsOk(result)
    /\ CmdsOf("add_gateway") # {}
    /\ CmdsOf("set_dns") # {}
    /\ profile.dns # DNS_None

(***************************************************************************)
(* The application window: NetProfiler::update runs once per frame. A      *)
(* frame handles at most one click or edit of the user. A click on Apply   *)
(* with an interface selected calls load_profile, which runs to its end    *)
(* before the frame goes on.                                               *)
(***************************************************************************)
MaxProfiles == 2

MaxToasts == 2

MaxApplies == 1

\* the name Add Profile gives and a name the user types
UiNames == {"New Profile", "office"}

\* show_top_panel: the profile the builder opens on
NewProfile ==
    [name |-> "New Profile",
     ips |-> <<[address |-> "192.168.", subnet |-> "255.255.255.0"]>>,
     gateways |-> <<>>, dns |-> DNS_None, mac |-> None]

\* what the rows of show_profile are edited to: every address removed, the
\* row of a new profile left as it is, two addresses and two gateways
UiConfigurations ==
    { [ips |-> <<>>, gateways |-> <<>>],
      [ips |-> NewProfile.ips, gateways |-> <<>>],
      [ips |-> <<[address |-> "10.0.0.5", subnet |-> "/24"],
                 [address |-> "10.0.0.6", subnet |-> "/24"]>>,
       gateways |-> <<"10.0.0.1", "10.0.0.254">>] }

\* the profiles the user builds, and the profiles a file holds
UiProfiles ==
    { [name |-> n, ips |-> c.ips, gateways |-> c.gateways, dns |-> DNS_None,
       mac |-> None] : n \in UiNames, c \in UiConfigurations }

\* the outcomes of import_profiles_from_file: the profiles of the file, or
\* the message of the error
ImportOutcomes ==
    { Ok(ps) : ps \in SeqsUpTo(UiProfiles, MaxProfiles) }
        \cup {Err("Error parsing profiles JSON: expected value")}

\* show_success_toast
success_toast(message) == [kind |-> "Success", text |-> message]

\* show_error_toast
error_toast(message) == [kind |-> "Error", text |-> message]

\* ProfileLoader::take_last_result: the result kept since the last call of
\* load_profile is handed out once
take_last_result == [returns |-> last_result, last_result |-> None]

\* update: the notification for what take_last_result returned
loader_result_toasts(taken) ==
    IF taken = None THEN <<>>
    ELSE IF IsOk(taken[2])
         THEN <<success_toast("Profile applied successfully")>>
         ELSE <<error_toast("Failed to apply profile: " \o taken[2][2])>>

\* the part of update every frame runs: the loader's result is taken and
\* notified, then the frame's own notifications are added
Frame(event_toasts) ==
    LET taken == take_last_result
    IN /\ last_result' = taken.last_result
       /\ toasts' = toasts \o loader_result_toasts(taken.returns)
                           \o event_toasts
       /\ Len(toasts') <= MaxToasts

\* no call of load_profile is running: update is between two frames
BetweenFrames == pc = "idle"

UiInit ==
    /\ os \in {"windows", "linux"}
    /\ adapter \in Adapters
    /\ profile = NetworkProfile_default
    /\ pc = "idle"
    /\ i = 0
    /\ normalized_subnet = ""
    /\ cmds = <<>>
    /\ calls = <<>>
    /\ result = Pending
    /\ stdout = <<>>
    /\ first_call = NoCall
    /\ arg_dns = DNS_None
    /\ arg_subnet = ""
    /\ arg_ip_address = ""
    /\ arg_vec = <<>>
    /\ arg_indices = <<>>
    /\ arg_file = None
    /\ called = "none"
    /\ returned = Unit
    /\ NetProfiler_default

\* a frame in which the user does nothing
frame_without_event ==
    /\ BetweenFrames
    /\ Frame(<<>>)
    /\ UNCHANGED <<os, adapter, profile, pc, i, normalized_subnet, cmds, calls,
                   result, stdout, first_call, fn_vars, profiles, builder,
                   loader, apply_requests>>

\* show_top_panel: Add Profile opens the builder on a new profile
show_top_panel_add_profile ==
    /\ BetweenFrames
    /\ builder' = Some(NewProfile)
    /\ Frame(<<>>)
    /\ UNCHANGED <<os, adapter, profile, pc, i, normalized_subnet, cmds, calls,
                   result, stdout, first_call, fn_vars, profiles, loader,
                   apply_requests>>

\* handle_profile_builder: the user types a name in the builder
builder_edit_name ==
    /\ BetweenFrames
    /\ builder # None
    /\ \E n \in UiNames \ {builder[2].name} :
          builder' = Some([builder[2] EXCEPT !.name = n])
    /\ Frame(<<>>)
    /\ UNCHANGED <<os, adapter, profile, pc, i, normalized_subnet, cmds, calls,
                   result, stdout, first_call, fn_vars, profiles, loader,
                   apply_requests>>

\* handle_profile_builder: show_profile(ui, builder), the user edits the
\* rows of the builder
builder_show_profile ==
    /\ BetweenFrames
    /\ builder # None
    /\ \E c \in UiConfigurations :
          /\ c.ips # builder[2].ips
          /\ builder' = Some([builder[2] EXCEPT !.ips = c.ips,
                                                !.gateways = c.gateways])
    /\ Frame(<<>>)
    /\ UNCHANGED <<os, adapter, profile, pc, i, normalized_subnet, cmds, calls,
                   result, stdout, first_call, fn_vars, profiles, loader,
                   apply_requests>>

\* handle_profile_builder: Create pushes the builder's profile and closes
\* the builder
builder_create ==
    /\ BetweenFrames
    /\ builder # None
    /\ Len(profiles) < MaxProfiles
    /\ profiles' = Append(profiles, builder[2])
    /\ builder' = None
    /\ Frame(<<success_toast("Successfully created profile")>>)
    /\ UNCHANGED <<os, adapter, profile, pc, i, normalized_subnet, cmds, calls,
                   result, stdout, first_call, fn_vars, loader,
                   apply_requests>>

\* handle_profile_builder: Cancel closes the builder
builder_cancel ==
    /\ BetweenFrames
    /\ builder # None
    /\ builder' = None
    /\ Frame(<<>>)
    /\ UNCHANGED <<os, adapter, profile, pc, i, normalized_subnet, cmds, calls,
                   result, stdout, first_call, fn_vars, profiles, loader,
                   apply_requests>>

\* import_profiles: the profiles of the picked file are appended
\* the match of import_profiles with the imported profiles put in the
\* place of the collection
import_profiles_match_replaces(imported) ==
    IF IsOk(imported)
    THEN /\ Len(profiles) + Len(imported[2]) <= MaxProfiles
         /\ profiles' = imported[2]
         /\ Frame(<<success_toast("Successfully imported profiles")>>)
    ELSE /\ profiles' = profiles
         /\ Frame(<<error_toast(imported[2])>>)

\* the match of import_profiles on what import_profiles_from_file returned:
\* Vec::append and a success notification, or an error notification
import_profiles_match(imported) ==
    IF IsOk(imported)
    THEN /\ Len(profiles) + Len(imported[2]) <= MaxProfiles
         /\ profiles' = profiles \o imported[2]
         /\ Frame(<<success_toast("Successfully imported profiles")>>)
    ELSE /\ profiles' = profiles
         /\ Frame(<<error_toast(imported[2])>>)

import_profiles ==
    /\ BetweenFrames
    /\ \E imported \in ImportOutcomes : import_profiles_match(imported)
    /\ UNCHANGED <<os, adapter, profile, pc, i, normalized_subnet, cmds, calls,
                   result, stdout, first_call, fn_vars, builder, loader,
                   apply_requests>>

\* show_profiles_panel: Clone opens the builder on a copy of the profile
profile_clone ==
    /\ BetweenFrames
    /\ \E k \in 1..Len(profiles) : builder' = Some(profiles[k])
    /\ Frame(<<>>)
    /\ UNCHANGED <<os, adapter, profile, pc, i, normalized_subnet, cmds, calls,
                   result, stdout, first_call, fn_vars, profiles, loader,
                   apply_requests>>

\* show_profiles_panel: Remove, double clicked, removes the profile
profile_remove ==
    /\ BetweenFrames
    /\ \E profiles_to_remove \in MarkedIndices(Len(profiles)) :
          /\ profiles_to_remove # <<>>
          /\ profiles' = remove_items_by_indices(profiles, profiles_to_remove)
    /\ Frame(<<>>)
    /\ UNCHANGED <<os, adapter, profile, pc, i, normalized_subnet, cmds, calls,
                   result, stdout, first_call, fn_vars, builder, loader,
                   apply_requests>>

\* show_profile_item_inner: show_profile(ui, profile), the user edits the
\* rows of a profile of the collection
profile_show_profile ==
    /\ BetweenFrames
    /\ \E k \in 1..Len(profiles), c \in UiConfigurations :
          /\ c.ips # profiles[k].ips
          /\ profiles' = [profiles EXCEPT ![k].ips = c.ips,
                                          ![k].gateways = c.gateways]
    /\ Frame(<<>>)
    /\ UNCHANGED <<os, adapter, profile, pc, i, normalized_subnet, cmds, calls,
                   result, stdout, first_call, fn_vars, builder, loader,
                   apply_requests>>

\* show_profiles_panel: Load opens the loader window on a copy of the
\* profile (ProfileLoader::load_profile)
profile_load ==
    /\ BetweenFrames
    /\ \E k \in 1..Len(profiles) :
          loader' = [loader EXCEPT !.profile = profiles[k], !.visible = TRUE]
    /\ Frame(<<>>)
    /\ UNCHANGED <<os, adapter, profile, pc, i, normalized_subnet, cmds, calls,
                   result, stdout, first_call, fn_vars, profiles, builder,
                   apply_requests>>

\* ProfileLoader::update: the user picks an interface in the combo box
loader_select_interface ==
    /\ BetweenFrames
    /\ loader.visible
    /\ \E a \in Adapters :
          /\ loader.selected_interface # Some(a)
          /\ loader' = [loader EXCEPT !.selected_interface = Some(a)]
    /\ Frame(<<>>)
    /\ UNCHANGED <<os, adapter, profile, pc, i, normalized_subnet, cmds, calls,
                   result, stdout, first_call, fn_vars, profiles, builder,
                   apply_requests>>

\* ProfileLoader::update: Apply is clicked while no interface is selected;
\* the inner if let finds None and the frame goes on
loader_apply_no_interface ==
    /\ BetweenFrames
    /\ loader.visible
    /\ loader.selected_interface = None
    /\ Len(apply_requests) < MaxApplies
    /\ apply_requests' = Append(apply_requests,
                                [interface |-> None, outcome |-> None,
                                 commands |-> 0])
    /\ Frame(<<>>)
    /\ UNCHANGED <<os, adapter, profile, pc, i, normalized_subnet, cmds, calls,
                   result, stdout, first_call, fn_vars, profiles, builder,
                   loader>>

\* ProfileLoader::update: Apply is clicked with an interface selected:
\* load_profile(&self.profile, &interface.name) is called
loader_apply ==
    /\ BetweenFrames
    /\ loader.visible
    /\ loader.selected_interface # None
    /\ Len(apply_requests) < MaxApplies
    /\ adapter' = loader.selected_interface[2]
    /\ profile' = loader.profile
    /\ pc' = "load_profile"
    /\ UNCHANGED <<os, i, normalized_subnet, cmds, calls, result, stdout,
                   first_call, fn_vars, ui_vars>>

\* load_profile has returned to ProfileLoader::update, which drops the
\* value (the call is a statement); the frame goes on. The arguments and
\* the records of the call end with it.
loader_apply_returns ==
    /\ pc = "done"
    /\ apply_requests' = Append(apply_requests,
                                [interface |-> Some(adapter),
                                 outcome |-> Some(result),
                                 commands |-> Len(cmds)])
    /\ Frame(<<>>)
    /\ pc' = "idle"
    /\ profile' = NetworkProfile_default
    /\ i' = 0
    /\ normalized_subnet' = ""
    /\ cmds' = <<>>
    /\ calls' = <<>>
    /\ result' = Pending
    /\ stdout' = <<>>
    /\ UNCHANGED <<os, adapter, first_call, fn_vars, profiles, builder, loader>>

\* ProfileLoader::update: Cancel closes the window (ProfileLoader::close)
loader_cancel ==
    /\ BetweenFrames
    /\ loader.visible
    /\ loader' = [loader EXCEPT !.visible = FALSE,
                                !.selected_interface = None]
    /\ Frame(<<>>)
    /\ UNCHANGED <<os, adapter, profile, pc, i, normalized_subnet, cmds, calls,
                   result, stdout, first_call, fn_vars, profiles, builder,
                   apply_requests>>

UiNext ==
    \/ Next
    \/ frame_without_event
    \/ show_top_panel_add_profile
    \/ builder_edit_name
    \/ builder_show_profile
    \/ builder_create
    \/ builder_cancel
    \/ import_profiles
    \/ profile_clone
    \/ profile_remove
    \/ profile_show_profile
    \/ profile_load
    \/ loader_select_interface
    \/ loader_apply_no_interface
    \/ loader_apply
    \/ loader_apply_returns
    \/ loader_cancel

UiSpec == UiInit /\ [][UiNext]_vars

(***************************************************************************)
(* import_profiles called directly: the window starts with the profiles    *)
(* that were saved when it was closed, and a file is picked                *)
(***************************************************************************)
ImportInit ==
    /\ os \in {"windows", "linux"}
    /\ adapter \in Adapters
    /\ profile = NetworkProfile_default
    /\ pc = "idle"
    /\ i = 0
    /\ normalized_subnet = ""
    /\ cmds = <<>>
    /\ calls = <<>>
    /\ result = Pending
    /\ stdout = <<>>
    /\ first_call = NoCall
    /\ arg_dns = DNS_None
    /\ arg_subnet = ""
    /\ arg_ip_address = ""
    /\ arg_vec = <<>>
    /\ arg_indices = <<>>
    /\ arg_file \in ImportOutcomes
    /\ called = "none"
    /\ returned = Unit
    /\ profiles \in SeqsUpTo(UiProfiles, MaxProfiles)
    /\ builder = None
    /\ loader = ProfileLoader_default
    /\ last_result = None
    /\ toasts = <<>>
    /\ apply_requests = <<>>

call_import_profiles ==
    /\ called = "none"
    /\ BetweenFrames
    /\ import_profiles_match(arg_file)
    /\ called' = "import_profiles"
    /\ returned' = Unit
    /\ UNCHANGED <<os, adapter, profile, pc, i, normalized_subnet, cmds, calls,
                   result, stdout, first_call, arg_dns, arg_subnet,
                   arg_ip_address, arg_vec, arg_indices, arg_file, builder,
                   loader, apply_requests>>

ImportNext == call_import_profiles

ImportSpec == ImportInit /\ [][ImportNext]_vars


(***************************************************************************)
(* C25  A click on Apply while no interface is selected produces an error  *)
(* outcome (NoInterfaceSelected) and issues no external command.           *)
(***************************************************************************)
C25_NoInterfaceSelected ==
    \A k \in 1..Len(apply_requests) :
        apply_requests[k].interface = None
            => /\ apply_requests[k].outcome # None
               /\ IsErr(apply_requests[k].outcome[2])
               /\ apply_requests[k].commands = 0


\* a notification of update for a result of load_profile
IsApplyToast(t) ==
    \/ t.text = "Profile applied successfully"
    \/ starts_with(t.text, "Failed to apply profile: ")

\* the clicks on Apply that called load_profile
IsInvocation(r) == r.interface # None

(***************************************************************************)
(* C26  Once the frame of a click on Apply is over, every call of          *)
(* load_profile made from the window so far has exactly one notification:  *)
(* a success notification if it returned Ok, a failure notification if it  *)
(* returned Err; the frames that follow add no other.                      *)
(***************************************************************************)
C26_OneNotificationPerInvocation ==
    BetweenFrames =>
        LET made == SelectSeq(apply_requests, IsInvocation)
            shown == SelectSeq(toasts, IsApplyToast)
        IN /\ Len(shown) = Len(made)
           /\ \A k \in 1..Len(made) :
                 shown[k].kind = IF IsOk(made[k].outcome[2]) THEN "Success"
                                 ELSE "Error"


(***************************************************************************)
(* C27  The names of the profiles of the collection are pairwise           *)
(* different, whatever profiles were created in the builder, cloned,       *)
(* imported, edited and removed.                                           *)
(***************************************************************************)
C27_NamesUnique ==
    \A a, b \in 1..Len(profiles) :
        a # b => profiles[a].name # profiles[b].name


\* the largest number of external commands load_profile can issue for the
\* profile p: flush, add and route for the first address, one command for
\* each later address, one for each gateway after the first, one for the DNS
CommandBound(p) ==
    (IF p.ips = <<>> THEN 0 ELSE 3 + (Len(p.ips) - 1))
        + (IF Len(p.gateways) > 1 THEN Len(p.gateways) - 1 ELSE 0)
        + 1

(***************************************************************************)
(* C28  When every external command returns, load_profile ends: it         *)
(* reaches its return with Ok or with the Err of the first step that       *)
(* failed, it never stays in a step, and on the way it issues at most a    *)
(* number of commands fixed by the numbers of ips and gateways (no step    *)
(* is tried again).                                                        *)
(***************************************************************************)
C28_Terminates ==
    /\ <>Done
    /\ [](Done => IsOk(result) \/ IsErr(result))
    /\ [](\A k \in 1..Len(calls) :
             IsErr(calls[k].ret) =>
                 Done /\ k = Len(calls) /\ result = calls[k].ret)
    /\ [](Len(cmds) <= CommandBound(profile))

\* a run that issued every command the bound allows and returned
C28_Witness ==
    /\ Done
    /\ Len(profile.ips) > 1
    /\ Len(profile.gateways) > 1
    /\ Len(cmds) = CommandBound(profile)


(***************************************************************************)
(* C29  Two profiles that differ in mac only make load_profile issue the   *)
(* same commands, with the same arguments and in the same order, and       *)
(* return the same result, when the environment answers the commands of    *)
(* the second call as it answered those of the first.                      *)
(***************************************************************************)
C29_MacHasNoEffect ==
    (Done /\ first_call.made) =>
        /\ cmds = first_call.cmds
        /\ result = first_call.result

\* the second call, on a profile with a MAC override, has issued commands
\* for two addresses and has returned
C29_Witness ==
    /\ Done
    /\ first_call.made
    /\ profile.mac # None
    /\ Len(profile.ips) > 1
    /\ Len(cmds) > 1
    /\ IsOk(result)

\* the 33 prefix lengths in CIDR notation
ValidPrefixes == {Cidr(n) : n \in 0..32}

(***************************************************************************)
(* C30  Whenever normalize_subnet_for_os returns Ok, the string it returns *)
(* is a valid subnet in the notation of the platform: a contiguous         *)
(* dotted-decimal mask on Windows, "/N" with 0 <= N <= 32 on Linux.        *)
(***************************************************************************)
C30_NormalizedSubnetIsValid ==
    (called = "normalize_subnet_for_os" /\ IsOk(returned)) =>
        returned[2] \in (IF os = "windows" THEN ValidMasks
                         ELSE ValidPrefixes)


\* the elements of the sequence s
Elements(s) == { s[k] : k \in 1..Len(s) }

(***************************************************************************)
(* C31  When profile.ips is empty and gateways has two or more entries,    *)
(* the primary address operation is not called, so gateways[0] reaches no  *)
(* command (no command has it as an argument, unless a later entry is the  *)
(* same address); add_gateway is called for gateways[1], gateways[2], ...  *)
(* in order with the metrics 1, 2, ..., for all of them once the DNS step  *)
(* is reached, and load_profile returns Ok only after the DNS step.        *)
(***************************************************************************)
C31_FirstGatewayDroppedWithoutIps ==
    (profile.ips = <<>> /\ Len(profile.gateways) >= 2) =>
        /\ CallsOf("set_ip_addr") = {}
        /\ profile.gateways[1] \notin Elements(Tail(profile.gateways)) =>
              \A k \in 1..Len(cmds) :
                  profile.gateways[1] \notin Elements(cmds[k].args)
        /\ IsPrefix(GatewayCallsFrom(1), GatewaysWithMetrics(profile))
        /\ \A k \in 1..Len(cmds) : cmds[k].op \in {"add_gateway", "set_dns"}
        /\ ReachedDns => GatewayCallsFrom(1) = GatewaysWithMetrics(profile)
        /\ (Done /\ IsOk(result)) => ReachedDns

\* no address, gateways [g1, g2, g2] with g1 # g2: add_gateway ran for the
\* second and the third entry, the DNS command ran, and load_profile
\* returned Ok
C31_Witness ==
    /\ profile.ips = <<>>
    /\ Len(profile.gateways) = 3
    /\ profile.gateways[1] # profile.gateways[2]
    /\ Cardinality(CmdsOf("add_gateway")) = 2
    /\ CmdsOf("set_dns") # {}
    /\ Done
    /\ IsOk(result)


\* the command `ip route add default via <gateway> dev <adapter>` of
\* set_ip_addr
IsDefaultRoute(c) ==
    c.op = "set_ip_addr" /\ c.program = "ip" /\ c.args[1] = "route"

(***************************************************************************)
(* C32  On Linux, when the default-route command of set_ip_addr has failed *)
(* (non-zero exit or spawn failure), set_ip_addr has returned Ok, and      *)
(* load_profile has gone on: it returns only after a later step, and an    *)
(* error it returns is the error of a later step.                          *)
(***************************************************************************)
C32_RouteFailureIsNoError ==
    \A k \in 1..Len(cmds) :
        (/\ os = "linux"
         /\ IsDefaultRoute(cmds[k])
         /\ cmds[k].out \in {"failure", "spawn_error"}) =>
            /\ calls[1].fn = "set_ip_addr"
            /\ calls[1].ret = Ok(Unit)
            /\ Done => Len(calls) > 1
            /\ (Done /\ IsErr(result)) =>
                  /\ result = calls[Len(calls)].ret
                  /\ result \notin {Err(Stderr(k)), Err(IoError(k))}

\* the default-route command failed and load_profile returned Ok
C32_Witness ==
    /\ os = "linux"
    /\ \E k \in 1..Len(cmds) :
          IsDefaultRoute(cmds[k]) /\ cmds[k].out = "failure"
    /\ Done
    /\ IsOk(result)



\* the entries of ips whose subnet normalize_subnet_for_os refuses on this
\* platform
Unnormalizable ==
    {k \in 1..Len(profile.ips) :
        IsErr(normalize_subnet_for_os(os, profile.ips[k].subnet))}

\* the first of them
FirstUnnormalizable ==
    CHOOSE k \in Unnormalizable : \A j \in Unnormalizable : k <= j

(***************************************************************************)
(* C33  The subnet is normalized before any command of its step.  When the *)
(* subnet of the first address is refused, no command is ever issued, and  *)
(* the one call made is set_ip_addr, returning the refusal, which          *)
(* load_profile returns.  When the first refused subnet is that of a later *)
(* entry k, every command is a command of set_ip_addr or of add_ip_addr    *)
(* for an entry before k; once add_ip_addr was called for entry k, the     *)
(* primary and the entries before k have been applied, no command was      *)
(* issued for entry k, and load_profile has returned the refusal.          *)
(***************************************************************************)
C33_NormalizationBeforeCommands ==
    Unnormalizable # {} =>
        LET k == FirstUnnormalizable
            refusal == normalize_subnet_for_os(os, profile.ips[k].subnet)
        IN IF k = 1
           THEN /\ cmds = <<>>
                /\ calls # <<>> =>
                      /\ Len(calls) = 1
                      /\ calls[1].fn = "set_ip_addr"
                      /\ calls[1].ret = refusal
                      /\ Done
                      /\ result = refusal
           ELSE /\ \A c \in 1..Len(cmds) :
                      cmds[c].op \in {"set_ip_addr", "add_ip_addr"}
                /\ Cardinality(CmdsOf("add_ip_addr")) <= k - 2
                /\ Cardinality(CallsOf("add_ip_addr")) <= k - 1
                /\ CallsOf("add_gateway") \cup CallsOf("set_dns") = {}
                /\ Cardinality(CallsOf("add_ip_addr")) = k - 1 =>
                      /\ calls[1].ret = Ok(Unit)
                      /\ \A j \in 2..(k - 1) : calls[j].ret = Ok(Unit)
                      /\ Cardinality(CmdsOf("add_ip_addr")) = k - 2
                      /\ Len(calls) = k
                      /\ calls[k].ret = refusal
                      /\ Done
                      /\ result = refusal

\* the first address has a subnet that is refused, set_ip_addr was called,
\* and nothing was run
C33_WitnessPrimary ==
    /\ Unnormalizable # {}
    /\ FirstUnnormalizable = 1
    /\ calls # <<>>
    /\ cmds = <<>>
    /\ Done


\* three addresses, the third with a subnet that is refused: the primary and
\* the second were applied, add_ip_addr was called for the third and ran
\* nothing, and load_profile returned the refusal
C33_Witness ==
    /\ Len(profile.ips) = 3
    /\ Unnormalizable = {3}
    /\ Len(calls) = 3
    /\ Cardinality(CmdsOf("add_ip_addr")) = 1
    /\ \A c \in 1..Len(cmds) : cmds[c].out = "success"
    /\ Done
    /\ IsErr(result)



(***************************************************************************)
(* C34  The two conversions are mutually inverse bijections between the 33 *)
(* prefixes "/0" .. "/32" and the 33 contiguous masks:                     *)
(* cidr_to_dotted_decimal takes every prefix to a contiguous mask and      *)
(* dotted_decimal_to_cidr takes that mask back to the prefix;              *)
(* dotted_decimal_to_cidr takes every contiguous mask to a prefix and      *)
(* cidr_to_dotted_decimal takes that prefix back to the mask.              *)
(***************************************************************************)
C34_MutuallyInverse ==
    /\ Cardinality(ValidPrefixes) = 33
    /\ Cardinality(ValidMasks) = 33
    /\ arg_subnet \in ValidPrefixes =>
          /\ called = "cidr_to_dotted_decimal" =>
                IsOk(returned) /\ returned[2] \in ValidMasks
          /\ called = "dotted_decimal_to_cidr(cidr_to_dotted_decimal)" =>
                returned = Ok(arg_subnet)
    /\ arg_subnet \in ValidMasks =>
          /\ called = "dotted_decimal_to_cidr" =>
                IsOk(returned) /\ returned[2] \in ValidPrefixes
          /\ called = "cidr_to_dotted_decimal(dotted_decimal_to_cidr)" =>
                returned = Ok(arg_subnet)

\* "/20" has gone to "255.255.240.0" and back
C34_Witness ==
    /\ called = "dotted_decimal_to_cidr(cidr_to_dotted_decimal)"
    /\ arg_subnet = "/20"
    /\ cidr_to_dotted_decimal(arg_subnet) = Ok("255.255.240.0")
    /\ returned = Ok("/20")



(***************************************************************************)
(* C35  For every string s that does not start with '/',                   *)
(* dotted_decimal_to_cidr(s) returns Ok if and only if                     *)
(* check_valid_subnet(s) is true.                                          *)
(***************************************************************************)
C35_ValidatorAgreesWithConversion ==
    (/\ called = "check_valid_subnet, dotted_decimal_to_cidr"
     /\ ~starts_with(arg_subnet, "/")) =>
        (IsOk(returned[2]) <=> returned[1] = TRUE)

\* both refuse a mask with a zero-bit among its ones, both accept
\* 255.255.255.0 (seen here on the first)
C35_Witness ==
    /\ called = "check_valid_subnet, dotted_decimal_to_cidr"
    /\ arg_subnet = "255.0.255.0"
    /\ returned = <<FALSE, Err("Invalid subnet mask: 255.0.255.0")>>



\* the thread that runs load_profile has panicked
Panicked == pc = "panicked"

(***************************************************************************)
(* C36  set_dns never panics on a missing DNS pair.  On Windows the two    *)
(* unwraps are reached only for a variant other than DNS::None, for which  *)
(* primary() and secondary() are Some, and the command carries the two     *)
(* unwrapped addresses; for DNS::None the command is the DHCP one, built   *)
(* without them.  On Linux set_dns issues, for every variant other than    *)
(* DNS::None, exactly one command, the static-DNS one.                     *)
(***************************************************************************)
C36_SetDnsNeverPanics ==
    /\ ~Panicked
    /\ ReachedDns =>
          /\ Cardinality(CmdsOf("set_dns")) = 1
          /\ \A k \in CmdsOf("set_dns") :
                IF profile.dns = DNS_None
                THEN cmds[k].args = IF os = "windows"
                                    THEN powershell_dns_dhcp(adapter)
                                    ELSE nmcli_dns_auto(adapter)
                ELSE /\ primary(profile.dns)[1] = "Some"
                     /\ secondary(profile.dns)[1] = "Some"
                     /\ cmds[k].args =
                           IF os = "windows"
                           THEN powershell_dns_static(
                                    adapter, primary(profile.dns)[2],
                                    secondary(profile.dns)[2])
                           ELSE nmcli_dns_static(
                                    adapter, primary(profile.dns)[2],
                                    secondary(profile.dns)[2])

\* on Windows set_dns has unwrapped the two addresses of a Custom value and
\* load_profile has returned Ok
C36_Witness ==
    /\ os = "windows"
    /\ profile.dns[1] = "DNS::Custom"
    /\ \E k \in CmdsOf("set_dns") :
          cmds[k].args = powershell_dns_static(adapter, profile.dns[2],
                                               profile.dns[3])
    /\ Done
    /\ IsOk(result)



\* the indices are distinct, ascending and inside the vector
DistinctAscendingInRange(vec, indices) ==
    /\ \A k \in 1..Len(indices) : indices[k] \in 0..(Len(vec) - 1)
    /\ \A a, b \in 1..Len(indices) : a < b => indices[a] < indices[b]

\* the positions (from 1) of vec whose index (from 0) is not in indices
KeptPositions(vec, indices) ==
    {p \in 1..Len(vec) : (p - 1) \notin Elements(indices)}

\* the k-th smallest element of a set of numbers
Nth(S, k) == CHOOSE p \in S : Cardinality({q \in S : q < p}) = k - 1

\* the elements of vec at the kept positions, in the order they have in vec
KeptItems(vec, indices) ==
    [k \in 1..Cardinality(KeptPositions(vec, indices)) |->
        vec[Nth(KeptPositions(vec, indices), k)]]

(***************************************************************************)
(* C37  Removing by a list of distinct, ascending indices inside the       *)
(* vector never indexes out of bounds (no Vec::remove panics), removes     *)
(* exactly the elements at those indices, and leaves the other elements in *)
(* the order they had.                                                     *)
(***************************************************************************)
C37_RemovesExactlyTheMarked ==
    (/\ called = "remove_items_by_indices"
     /\ DistinctAscendingInRange(arg_vec, arg_indices)) =>
        /\ returned # Panic
        /\ Len(returned) = Len(arg_vec) - Len(arg_indices)
        /\ returned = KeptItems(arg_vec, arg_indices)

\* the first and the last of three different items were removed
C37_Witness ==
    /\ called = "remove_items_by_indices"
    /\ arg_vec = <<"a", "b", "c">>
    /\ arg_indices = <<0, 2>>
    /\ returned = <<"b">>



(***************************************************************************)
(* C38  Import is append-only and all-or-nothing.  A step in which         *)
(* import_profiles runs on a file that could not be read or parsed leaves  *)
(* the collection as it was; on a file that was parsed, the collection     *)
(* afterwards is the collection before, every profile at its place,        *)
(* followed by all the profiles of the file in the order of the file.      *)
(***************************************************************************)
C38_ImportAppendsAllOrNothing ==
    [][ (called = "none" /\ called' = "import_profiles") =>
            IF IsErr(arg_file)
            THEN profiles' = profiles
            ELSE /\ Len(profiles') = Len(profiles) + Len(arg_file[2])
                 /\ \A k \in 1..Len(profiles) : profiles'[k] = profiles[k]
                 /\ \A k \in 1..Len(arg_file[2]) :
                       profiles'[Len(profiles) + k] = arg_file[2][k] ]_vars

\* a file with one profile was imported into a collection of one other
\* profile: the collection holds the old one, then the new one
C38_Witness ==
    /\ called = "import_profiles"
    /\ IsOk(arg_file)
    /\ Len(arg_file[2]) = 1
    /\ Len(profiles) = 2
    /\ profiles[2] = arg_file[2][1]
    /\ profiles[1] # profiles[2]
    /\ toasts = <<success_toast("Successfully imported profiles")>>

\* a file that could not be parsed was imported into a collection of two
\* profiles, which is as it was
C38_WitnessFailed ==
    /\ called = "import_profiles"
    /\ IsErr(arg_file)
    /\ Len(profiles) = 2
    /\ toasts = <<error_toast(arg_file[2])>>

=============================================================================
